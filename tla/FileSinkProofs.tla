--------------------------- MODULE FileSinkProofs ---------------------------
(***************************************************************************)
(* Theorems about FileSink for any number of threads, any capacity and any *)
(* bounds.  The inductive invariant is built in layers, each proved with   *)
(* the layers below it: types, then the lock and the local state of a      *)
(* call, then the positions of the bytes, then the calls.  On it rests the *)
(* proof that FileSink implements CallLog.                                 *)
(***************************************************************************)
EXTENDS FileSink, SequenceTheorems, TLAPS

(* A step is one of these; Finished and a stutter change nothing.  Every   *)
(* case split below follows this list.                                     *)
LEMMA StepCases ==
    ASSUME [Next]_vars
    PROVE  \/ \E t \in Threads : \/ Begin(t) \/ Commit(t)
                                 \/ FlushEmpty(t) \/ Lock(t) \/ Put(t)
                                 \/ FlushDone(t) \/ DirectDone(t) \/ Restage(t)
                                 \/ \E r \in {"idle", "gone"} : CallFlush(t, r)
                                 \/ \E n \in 1..MaxCall : WriteFast(t, n)
                                 \/ \E n \in 1..MaxCall : WriteFile(t, n)
           \/ MoveAssign
           \/ UNCHANGED vars
BY DEF Next, InCall, OwnStep, Finished

-----------------------------------------------------------------------------
(* Every variable keeps its type: the staging buffers hold positions, the  *)
(* mutex a thread or nobody, whatever the calls and their order.           *)
THEOREM TypeCorrect == Spec => []TypeOK
<1> USE CapAssumption, BoundsAssumption, ConstructorAssumption, ThreadAssumption
<1>1. Init => TypeOK
  BY DEF Init, TypeOK, Control, Returns
<1>2. TypeOK /\ [Next]_vars => TypeOK'
  <2> SUFFICES ASSUME TypeOK, [Next]_vars PROVE TypeOK'
    OBVIOUS
  <2> USE DEF TypeOK, Control, Returns, Writing
  <2>1. ASSUME NEW t \in Threads, Begin(t) PROVE TypeOK'
    BY <2>1 DEF Begin
  <2>2. ASSUME NEW t \in Threads, Commit(t) PROVE TypeOK'
    BY <2>2 DEF Commit
  <2>3. ASSUME NEW t \in Threads, FlushEmpty(t) PROVE TypeOK'
    BY <2>3 DEF FlushEmpty, Return
  <2>4. ASSUME NEW t \in Threads, Lock(t) PROVE TypeOK'
    BY <2>4 DEF Lock
  <2>5. ASSUME NEW t \in Threads, Put(t) PROVE TypeOK'
    <3>1. Source(t) \in Seq(Nat)
      BY DEF Source
    <3>2. [thr |-> t, pos |-> Source(t)[put[t] + 1], to |-> sink] \in Entries
      BY <2>5, <3>1 DEF Put, Entries
    <3> QED BY <2>5, <3>2 DEF Put
  <2>6. ASSUME NEW t \in Threads, FlushDone(t) PROVE TypeOK'
    BY <2>6 DEF FlushDone, Release, Return
  <2>7. ASSUME NEW t \in Threads, DirectDone(t) PROVE TypeOK'
    BY <2>7 DEF DirectDone, Release
  <2>8. ASSUME NEW t \in Threads, Restage(t) PROVE TypeOK'
    <3>1. ASSUME NEW b \in Seq(Nat), NEW d \in Seq(Nat) PROVE Appended(b, d) \in Seq(Nat)
      BY DEF Appended
    <3> QED BY <2>8, <3>1 DEF Restage
  <2>9. ASSUME NEW t \in Threads, NEW r \in {"idle", "gone"}, CallFlush(t, r) PROVE TypeOK'
    BY <2>9 DEF CallFlush
  <2>10. ASSUME NEW t \in Threads, NEW n \in 1..MaxCall, Produce(t, n)
         PROVE  made' \in [Threads -> Seq(Origins)] /\ Data(t, n) \in Seq(Nat)
    <3> DEFINE new == [i \in 1..n |-> [call |-> Len(made[t]) + 1, rec |-> rec[t]]]
    <3>1. new \in Seq(Origins)
      BY DEF Origins
    <3> HIDE DEF new
    <3>2. made[t] \o new \in Seq(Origins)
      BY <3>1
    <3>3. Data(t, n) \in Seq(Nat)
      BY DEF Data
    <3> QED BY <2>10, <3>2, <3>3 DEF Produce, new
  <2>11. ASSUME NEW t \in Threads, NEW n \in 1..MaxCall, WriteFast(t, n) PROVE TypeOK'
    <3>1. Produce(t, n) BY <2>11 DEF WriteFast
    <3>2. buff[t] \o Data(t, n) \in Seq(Nat) BY <2>10, <3>1
    <3> QED BY <2>10, <2>11, <3>1, <3>2 DEF WriteFast, Produce
  <2>12. ASSUME NEW t \in Threads, NEW n \in 1..MaxCall, WriteFile(t, n) PROVE TypeOK'
    <3>1. Produce(t, n) BY <2>12 DEF WriteFile
    <3> QED BY <2>10, <2>12, <3>1 DEF WriteFile, Produce
  <2>13. CASE MoveAssign
    BY <2>13 DEF MoveAssign
  <2>14. CASE UNCHANGED vars
    BY <2>14 DEF vars
  <2> HIDE DEF TypeOK, Control, Returns, Writing
  <2> QED BY StepCases, <2>1, <2>2, <2>3, <2>4, <2>5, <2>6, <2>7, <2>8, <2>9,
              <2>11, <2>12, <2>13, <2>14
<1> QED BY <1>1, <1>2, PTL DEF Spec

-----------------------------------------------------------------------------
(* The lock and the local state of a call.  A flush that write_file began  *)
(* carries that call's data in arg; so do the two steps that follow it,    *)
(* which find the buffer empty.                                            *)
OwnLock == \A t \in Threads : pc[t] \in Writing <=> mutex = t

ForCall(t) == pc[t] \in {"flush", "staged"} /\ after[t] \in {"append", "direct"}

Local(t) ==
    /\ pc[t] \notin Writing => put[t] = 0
    /\ pc[t] \in Writing => put[t] <= Len(Source(t))
    /\ Len(buff[t]) <= Cap
    /\ pc[t] \in {"append", "direct", "oversize", "gone"} => buff[t] = <<>>
    /\ arg[t] # <<>> => ForCall(t) \/ pc[t] \in {"append", "direct", "oversize"}
    /\ pc[t] = "append" \/ (ForCall(t) /\ after[t] = "append") => Len(arg[t]) <= Cap

LocalInv == OwnLock /\ \A t \in Threads : Local(t)

(* Buffer::append into an empty buffer keeps everything that fits. *)
LEMMA AppendedToEmpty ==
    ASSUME NEW d \in Seq(Nat), Len(d) <= Cap
    PROVE  Appended(<<>>, d) = d
<1>1. <<>> \o d = d /\ Len(<<>>) = 0 /\ Len(d) \in Nat
  BY ConcatEmptySeq, EmptySeq, LenProperties
<1> QED BY <1>1, CapAssumption DEF Appended

(* What concatenation does to sequences of positions. *)
LEMMA ConcatNats ==
    ASSUME NEW b \in Seq(Nat), NEW d \in Seq(Nat)
    PROVE  /\ b \o d \in Seq(Nat)
           /\ Len(b \o d) = Len(b) + Len(d)
           /\ \A i \in 1..(Len(b) + Len(d)) :
                  (b \o d)[i] = IF i <= Len(b) THEN b[i] ELSE d[i - Len(b)]
BY ConcatProperties

(* Every step keeps the lock and the local state of every thread. *)
LEMMA LocalStep == TypeOK /\ LocalInv /\ [Next]_vars => LocalInv'
<1> SUFFICES ASSUME TypeOK, LocalInv, [Next]_vars PROVE LocalInv'
  OBVIOUS
<1> USE CapAssumption, ThreadAssumption DEF TypeOK, LocalInv, OwnLock, Local, ForCall, Writing, Source
<1>1. ASSUME NEW t \in Threads, Begin(t) PROVE LocalInv'
  BY <1>1 DEF Begin
<1>2. ASSUME NEW t \in Threads, Commit(t) PROVE LocalInv'
  BY <1>2 DEF Commit
<1>3. ASSUME NEW t \in Threads, FlushEmpty(t) PROVE LocalInv'
  BY <1>3 DEF FlushEmpty, Return, Returns
<1>4. ASSUME NEW t \in Threads, Lock(t) PROVE LocalInv'
  <2>1. OwnLock'
    BY <1>4 DEF Lock
  <2>2. ASSUME NEW u \in Threads, u # t PROVE Local(u)'
    BY <1>4, <2>2 DEF Lock
  <2>3. Len(buff[t]) \in Nat /\ Len(arg[t]) \in Nat /\ put[t] = 0
    BY <1>4 DEF Lock
  <2>4. Local(t)'
    BY <1>4, <2>3 DEF Lock
  <2> QED BY <2>1, <2>2, <2>4
<1>5. ASSUME NEW t \in Threads, Put(t) PROVE LocalInv'
  <2>1. /\ pc[t] \in Writing /\ put[t] < Len(Source(t)) /\ put' = [put EXCEPT ![t] = @ + 1]
        /\ UNCHANGED <<pc, after, buff, arg, mutex>>
    BY <1>5 DEF Put
  <2>2. OwnLock'
    BY <2>1
  <2>3. \A u \in Threads : u # t => put'[u] = put[u]
    BY <2>1
  <2>4. put'[t] <= Len(Source(t))
    BY <2>1
  <2>5. ASSUME NEW u \in Threads PROVE Local(u)'
    <3>1. CASE u = t
      BY <2>1, <2>4, <3>1
    <3>2. CASE u # t
      BY <2>1, <2>3, <3>2
    <3> QED BY <3>1, <3>2
  <2> QED BY <2>2, <2>5
<1>6. ASSUME NEW t \in Threads, FlushDone(t) PROVE LocalInv'
  BY <1>6 DEF FlushDone, Release, Return, Returns
<1>7. ASSUME NEW t \in Threads, DirectDone(t) PROVE LocalInv'
  BY <1>7 DEF DirectDone, Release
<1>8. ASSUME NEW t \in Threads, Restage(t) PROVE LocalInv'
  <2>1. Appended(buff[t], arg[t]) = arg[t]
    BY <1>8, AppendedToEmpty DEF Restage
  <2> QED BY <1>8, <2>1 DEF Restage
<1>9. ASSUME NEW t \in Threads, NEW r \in {"idle", "gone"}, CallFlush(t, r) PROVE LocalInv'
  BY <1>9 DEF CallFlush
<1>10. ASSUME NEW n \in 1..MaxCall, NEW t \in Threads
       PROVE  Data(t, n) \in Seq(Nat) /\ Len(Data(t, n)) = n
  BY BoundsAssumption DEF Data
<1>11. ASSUME NEW t \in Threads, NEW n \in 1..MaxCall, WriteFast(t, n) PROVE LocalInv'
  <2>1. buff[t] \in Seq(Nat)
    OBVIOUS
  <2>2. Data(t, n) \in Seq(Nat) /\ Len(Data(t, n)) = n
    BY <1>10
  <2> HIDE DEF TypeOK, LocalInv
  <2>3. buff[t] \o Data(t, n) \in Seq(Nat) /\ Len(buff[t] \o Data(t, n)) = Len(buff[t]) + n
    BY <2>1, <2>2, ConcatNats
  <2> USE DEF TypeOK, LocalInv
  <2> QED BY <1>11, <2>3 DEF WriteFast, Produce, Fits
<1>12. ASSUME NEW t \in Threads, NEW n \in 1..MaxCall, WriteFile(t, n) PROVE LocalInv'
  BY <1>12, <1>10, SMTT(30) DEF WriteFile, Produce
<1>13. CASE MoveAssign
  BY <1>13 DEF MoveAssign
<1>14. CASE UNCHANGED vars
  BY <1>14 DEF vars
<1> HIDE DEF TypeOK, LocalInv
<1> QED BY StepCases, <1>1, <1>2, <1>3, <1>4, <1>5, <1>6, <1>7, <1>8, <1>9,
           <1>11, <1>12, <1>13, <1>14

(* The mutex is owned by the one thread that is inside file_.write, and a  *)
(* buffer is empty wherever write_file has flushed it.                     *)
THEOREM LocalCorrect == Spec => []LocalInv
<1>1. Init => LocalInv
  BY CapAssumption, ThreadAssumption DEF Init, LocalInv, OwnLock, Local, ForCall, Writing, Source
<1> QED BY <1>1, LocalStep, TypeCorrect, PTL DEF Spec

(* Buffer::append_unsafe checks nothing, yet no sequence of write,         *)
(* write_byte and flush moves the cursor past kBuffCap.                    *)
THEOREM StagingNeverOverflows == Spec => []StagingFits
<1>1. LocalInv => StagingFits
  BY DEF LocalInv, Local, StagingFits
<1> QED BY <1>1, LocalCorrect, PTL

(* The lock_guard of flush and the one of write_file exclude each other:   *)
(* at most one thread is inside file_.write.                               *)
THEOREM MutualExclusion ==
    Spec => [](\A t, u \in Threads : pc[t] \in Writing /\ pc[u] \in Writing => t = u)
<1>1. LocalInv => \A t, u \in Threads : pc[t] \in Writing /\ pc[u] \in Writing => t = u
  BY DEF LocalInv, OwnLock
<1> QED BY <1>1, LocalCorrect, PTL

-----------------------------------------------------------------------------
(* The bytes.  Base(t) of t's bytes have left its buffer for good; the     *)
(* buffer and the waiting call hold the ones that follow, in order; and    *)
(* the file has the first Landed(t), each once and in order.               *)
Base(t) == Len(made[t]) - Len(buff[t]) - Len(arg[t])
Landed(t) == Base(t) + put[t]

Runs(t) ==
    /\ Base(t) \in Nat
    /\ \A k \in 1..Len(buff[t]) : buff[t][k] = Base(t) + k
    /\ \A k \in 1..Len(arg[t]) : arg[t][k] = Base(t) + Len(buff[t]) + k

Landing ==
    /\ \A t \in Threads : \A i \in 1..Len(out) :
           out[i].thr = t => out[i].pos \in 1..Landed(t)
    /\ \A t \in Threads : \A p \in 1..Landed(t) :
           \E i \in 1..Len(out) : out[i].thr = t /\ out[i].pos = p
    /\ \A i, j \in 1..Len(out) :
           i < j /\ out[i].thr = out[j].thr => out[i].pos < out[j].pos

StreamInv == Landing /\ \A t \in Threads : Runs(t)

(* The types of one thread's sequences and of their lengths. *)
LEMMA Lengths ==
    ASSUME TypeOK, NEW t \in Threads
    PROVE  /\ buff[t] \in Seq(Nat) /\ Len(buff[t]) \in Nat
           /\ arg[t] \in Seq(Nat) /\ Len(arg[t]) \in Nat
           /\ made[t] \in Seq(Origins) /\ Len(made[t]) \in Nat
           /\ put[t] \in Nat
BY LenProperties DEF TypeOK

(* What the write calls of the encoder add. *)
LEMMA Produced ==
    ASSUME TypeOK, NEW t \in Threads, NEW n \in 1..MaxCall, Produce(t, n)
    PROVE  /\ made' \in [Threads -> Seq(Origins)]
           /\ Len(made'[t]) = Len(made[t]) + n
           /\ \A k \in 1..Len(made[t]) : made'[t][k] = made[t][k]
           /\ \A k \in 1..n : made'[t][Len(made[t]) + k].call = Len(made[t]) + 1
           /\ \A u \in Threads \ {t} : made'[u] = made[u]
           /\ Data(t, n) \in Seq(Nat) /\ Len(Data(t, n)) = n
           /\ \A k \in 1..n : Data(t, n)[k] = Len(made[t]) + k
<1> DEFINE new == [i \in 1..n |-> [call |-> Len(made[t]) + 1, rec |-> rec[t]]]
<1>1. n \in Nat /\ Len(made[t]) \in Nat /\ made[t] \in Seq(Origins)
  BY BoundsAssumption, Lengths
<1>2. new \in Seq(Origins) /\ Len(new) = n /\ \A k \in 1..n : new[k].call = Len(made[t]) + 1
  BY <1>1 DEF TypeOK, Origins
<1>3. made' = [made EXCEPT ![t] = made[t] \o new] /\ made \in [Threads -> Seq(Origins)]
  BY DEF Produce, TypeOK
<1> HIDE DEF new
<1>4. /\ made[t] \o new \in Seq(Origins)
      /\ Len(made[t] \o new) = Len(made[t]) + n
      /\ \A i \in 1..(Len(made[t]) + n) : (made[t] \o new)[i] =
             IF i <= Len(made[t]) THEN made[t][i] ELSE new[i - Len(made[t])]
  BY <1>1, <1>2, ConcatProperties
<1>5. /\ Data(t, n) \in Seq(Nat) /\ Len(Data(t, n)) = n
      /\ \A k \in 1..n : Data(t, n)[k] = Len(made[t]) + k
  BY <1>1 DEF Data
<1>6. /\ made' \in [Threads -> Seq(Origins)]
      /\ made'[t] = made[t] \o new
      /\ \A u \in Threads \ {t} : made'[u] = made[u]
  BY <1>3, <1>4
<1>7. /\ \A k \in 1..Len(made[t]) : (made[t] \o new)[k] = made[t][k]
      /\ \A k \in 1..n : (made[t] \o new)[Len(made[t]) + k] = new[k]
  BY <1>1, <1>4
<1> QED BY <1>2, <1>4, <1>5, <1>6, <1>7

(* Two runs that follow each other make one. *)
LEMMA RunConcat ==
    ASSUME NEW b \in Seq(Nat), NEW d \in Seq(Nat), NEW base \in Nat,
           \A k \in 1..Len(b) : b[k] = base + k,
           \A k \in 1..Len(d) : d[k] = base + Len(b) + k
    PROVE  /\ b \o d \in Seq(Nat) /\ Len(b \o d) = Len(b) + Len(d)
           /\ \A k \in 1..Len(b \o d) : (b \o d)[k] = base + k
<1>1. Len(b) \in Nat /\ Len(d) \in Nat
  BY LenProperties
<1>2. /\ b \o d \in Seq(Nat) /\ Len(b \o d) = Len(b) + Len(d)
      /\ \A i \in 1..(Len(b) + Len(d)) :
             (b \o d)[i] = IF i <= Len(b) THEN b[i] ELSE d[i - Len(b)]
  BY ConcatNats
<1> SUFFICES ASSUME NEW k \in 1..(Len(b) + Len(d)) PROVE (b \o d)[k] = base + k
  BY <1>2
<1>3. CASE k <= Len(b)
  BY <1>1, <1>2, <1>3
<1>4. CASE k > Len(b)
  <2>1. k - Len(b) \in 1..Len(d) /\ (b \o d)[k] = d[k - Len(b)]
    BY <1>1, <1>2, <1>4
  <2>2. d[k - Len(b)] = base + Len(b) + (k - Len(b))
    BY <2>1
  <2> QED BY <1>1, <2>1, <2>2
<1> QED BY <1>1, <1>3, <1>4

(* A step keeps each thread's run, and only file_.write lands a byte. *)
RunKept(u) == Runs(u)' /\ (out' = out => Landed(u)' = Landed(u))

(* Every step of any thread keeps the run of positions of thread u. *)
LEMMA RunsStep ==
    ASSUME TypeOK, LocalInv, NEW u \in Threads, Runs(u), [Next]_vars
    PROVE  RunKept(u)
<1>1. /\ buff[u] \in Seq(Nat) /\ Len(buff[u]) \in Nat
      /\ arg[u] \in Seq(Nat) /\ Len(arg[u]) \in Nat
      /\ Len(made[u]) \in Nat /\ put[u] \in Nat
  BY Lengths
<1>2. ASSUME buff'[u] = buff[u], arg'[u] = arg[u], made'[u] = made[u],
             put'[u] = put[u] \/ out' # out
      PROVE  RunKept(u)
  BY <1>2 DEF RunKept, Runs, Landed, Base
<1>3. ASSUME NEW t \in Threads, Put(t) PROVE RunKept(u)
  <2>1. out' # out
    <3>1. out \in Seq(Entries) /\ Len(out') = Len(out) + 1
      BY <1>3 DEF Put, TypeOK
    <3> QED BY <3>1, LenProperties
  <2> QED BY <1>2, <1>3, <2>1 DEF Put
<1>4. ASSUME NEW t \in Threads, FlushDone(t) PROVE RunKept(u)
  <2>1. CASE t # u
    BY <1>2, <1>4, <2>1 DEF FlushDone, Release, Return, TypeOK
  <2>2. CASE t = u
    <3>1. buff'[u] = <<>> /\ arg'[u] = arg[u] /\ made'[u] = made[u]
      BY <1>4, <2>2 DEF FlushDone, Release, TypeOK
    <3>2. put'[u] = 0 /\ put[u] = Len(buff[u])
      BY <1>4, <2>2 DEF FlushDone, Release, Source, TypeOK
    <3>3. Len(buff'[u]) = 0 /\ Base(u)' = Base(u) + Len(buff[u])
      BY <1>1, <3>1, EmptySeq DEF Base
    <3> QED BY <1>1, <3>1, <3>2, <3>3 DEF RunKept, Runs, Landed
  <2> QED BY <2>1, <2>2
<1>5. ASSUME NEW t \in Threads, DirectDone(t) PROVE RunKept(u)
  <2>1. CASE t # u
    BY <1>2, <1>5, <2>1 DEF DirectDone, Release, TypeOK
  <2>2. CASE t = u
    <3>1. arg'[u] = <<>> /\ buff'[u] = buff[u] /\ made'[u] = made[u]
      BY <1>5, <2>2 DEF DirectDone, Release, TypeOK
    <3>2. put'[u] = 0 /\ put[u] = Len(arg[u]) /\ buff[u] = <<>>
      BY <1>5, <2>2 DEF DirectDone, Release, Source, TypeOK, LocalInv, Local
    <3>3. Len(arg'[u]) = 0 /\ Base(u)' = Base(u) + Len(arg[u]) /\ Len(buff[u]) = 0
      BY <1>1, <3>1, <3>2, EmptySeq DEF Base
    <3> QED BY <1>1, <3>1, <3>2, <3>3 DEF RunKept, Runs, Landed
  <2> QED BY <2>1, <2>2
<1>6. ASSUME NEW t \in Threads, Restage(t) PROVE RunKept(u)
  <2>1. CASE t # u
    BY <1>2, <1>6, <2>1 DEF Restage, TypeOK
  <2>2. CASE t = u
    <3>1. buff[u] = <<>> /\ Len(arg[u]) <= Cap
      BY <1>6, <2>2 DEF Restage, LocalInv, Local
    <3>2. Appended(buff[u], arg[u]) = arg[u]
      BY <1>1, <3>1, AppendedToEmpty
    <3>3. /\ arg'[u] = <<>> /\ buff'[u] = arg[u] /\ made'[u] = made[u]
          /\ put'[u] = put[u]
      BY <1>6, <2>2, <3>2 DEF Restage, TypeOK
    <3>4. Len(arg'[u]) = 0 /\ Len(buff[u]) = 0
      BY <3>1, <3>3, EmptySeq
    <3>5. Base(u)' = Base(u)
      BY <1>1, <3>3, <3>4 DEF Base
    <3> QED BY <1>1, <3>3, <3>4, <3>5 DEF RunKept, Runs, Landed
  <2> QED BY <2>1, <2>2
<1>7. ASSUME NEW t \in Threads, NEW n \in 1..MaxCall, WriteFast(t, n) PROVE RunKept(u)
  <2>1. Produce(t, n) /\ pc[t] = "record" /\ n \in Nat
    BY <1>7, BoundsAssumption DEF WriteFast, Produce
  <2>2. CASE t # u
    <3>1. made'[u] = made[u]
      BY <2>1, <2>2, Produced
    <3> QED BY <1>2, <1>7, <2>1, <2>2, <3>1 DEF WriteFast, Produce, TypeOK
  <2>3. CASE t = u
    <3>1. Len(arg[u]) = 0
      BY <2>1, <2>3, EmptySeq DEF LocalInv, Local, ForCall
    <3>2. buff'[u] = buff[u] \o Data(u, n) /\ arg'[u] = arg[u] /\ put'[u] = put[u]
      BY <1>7, <2>3 DEF WriteFast, Produce, TypeOK
    <3>3. /\ Len(made'[u]) = Len(made[u]) + n
          /\ Data(u, n) \in Seq(Nat) /\ Len(Data(u, n)) = n
          /\ \A k \in 1..n : Data(u, n)[k] = Len(made[u]) + k
      BY <2>1, <2>3, Produced
    <3>4. Base(u) \in Nat /\ Len(made[u]) = Base(u) + Len(buff[u])
      BY <1>1, <3>1 DEF Runs, Base
    <3>5. \A k \in 1..Len(buff[u]) : buff[u][k] = Base(u) + k
      BY DEF Runs
    <3>6. \A k \in 1..Len(Data(u, n)) : Data(u, n)[k] = Base(u) + Len(buff[u]) + k
      BY <3>3, <3>4
    <3>7. /\ Len(buff'[u]) = Len(buff[u]) + n
          /\ \A k \in 1..Len(buff'[u]) : buff'[u][k] = Base(u) + k
      <4> DEFINE d == Data(u, n)
      <4>1. buff[u] \in Seq(Nat) /\ d \in Seq(Nat) /\ Base(u) \in Nat /\ Len(d) = n
        BY <1>1, <3>3, <3>4
      <4> HIDE DEF d
      <4>2. /\ Len(buff[u] \o d) = Len(buff[u]) + Len(d)
            /\ \A k \in 1..Len(buff[u] \o d) : (buff[u] \o d)[k] = Base(u) + k
        BY <4>1, <3>5, <3>6, RunConcat DEF d
      <4> QED BY <3>2, <4>1, <4>2 DEF d
    <3>8. Base(u)' = Base(u)
      BY <1>1, <2>1, <3>2, <3>3, <3>7 DEF Base
    <3> QED BY <3>1, <3>2, <3>4, <3>7, <3>8 DEF RunKept, Runs, Landed
  <2> QED BY <2>2, <2>3
<1>8. ASSUME NEW t \in Threads, NEW n \in 1..MaxCall, WriteFile(t, n) PROVE RunKept(u)
  <2>1. Produce(t, n) /\ pc[t] = "record" /\ n \in Nat
    BY <1>8, BoundsAssumption DEF WriteFile, Produce
  <2>2. CASE t # u
    <3>1. made'[u] = made[u]
      BY <2>1, <2>2, Produced
    <3> QED BY <1>2, <1>8, <2>1, <2>2, <3>1 DEF WriteFile, Produce, TypeOK
  <2>3. CASE t = u
    <3>1. Len(arg[u]) = 0
      BY <2>1, <2>3, EmptySeq DEF LocalInv, Local, ForCall
    <3>2. buff'[u] = buff[u] /\ arg'[u] = Data(u, n) /\ put'[u] = put[u]
      BY <1>8, <2>3 DEF WriteFile, Produce, TypeOK
    <3>3. Produce(u, n)
      BY <2>1, <2>3
    <3>4. /\ Len(made'[u]) = Len(made[u]) + n
          /\ Len(Data(u, n)) = n
          /\ \A k \in 1..n : Data(u, n)[k] = Len(made[u]) + k
      BY <3>3, Produced
    <3>5. Base(u) \in Nat /\ Len(made[u]) = Base(u) + Len(buff[u])
      BY <1>1, <3>1 DEF Runs, Base
    <3>6. Base(u)' = Base(u)
      BY <1>1, <2>1, <3>1, <3>2, <3>4 DEF Base
    <3>7. \A k \in 1..Len(buff[u]) : buff[u][k] = Base(u) + k
      BY DEF Runs
    <3> QED BY <3>2, <3>4, <3>5, <3>6, <3>7 DEF RunKept, Runs, Landed
  <2> QED BY <2>2, <2>3
<1>9. ASSUME UNCHANGED <<buff, arg, put, made>> PROVE RunKept(u)
  BY <1>2, <1>9
<1>10. ASSUME NEW t \in Threads,
              Begin(t) \/ Commit(t) \/ FlushEmpty(t) \/ Lock(t)
              \/ \E r \in {"idle", "gone"} : CallFlush(t, r)
       PROVE  RunKept(u)
  BY <1>9, <1>10 DEF Begin, Commit, FlushEmpty, Lock, CallFlush
<1>11. CASE MoveAssign \/ UNCHANGED vars
  BY <1>9, <1>11 DEF MoveAssign, vars
<1> QED BY StepCases, <1>3, <1>4, <1>5, <1>6, <1>7, <1>8, <1>10, <1>11

(* The byte that file_.write transfers next. *)
LEMMA NextByte ==
    ASSUME TypeOK, LocalInv, StreamInv, NEW t \in Threads, Put(t)
    PROVE  Source(t)[put[t] + 1] = Landed(t) + 1 /\ Landed(t) + 1 <= Len(made[t])
<1>1. pc[t] \in Writing /\ put[t] < Len(Source(t)) /\ put[t] \in Nat
  BY Lengths DEF Put
<1>2. Base(t) \in Nat /\ Len(buff[t]) \in Nat /\ Len(arg[t]) \in Nat /\ Len(made[t]) \in Nat
  BY Lengths DEF StreamInv, Runs
<1>3. CASE pc[t] = "oversize"
  <2>1. Len(buff[t]) = 0
    BY <1>3, EmptySeq DEF LocalInv, Local
  <2>2. put[t] + 1 \in 1..Len(arg[t])
    BY <1>1, <1>2, <1>3 DEF Source
  <2>3. arg[t][put[t] + 1] = Base(t) + Len(buff[t]) + (put[t] + 1)
    BY <2>2 DEF StreamInv, Runs
  <2>4. Source(t)[put[t] + 1] = Landed(t) + 1
    <3> DEFINE b == Base(t)
    <3>1. arg[t][put[t] + 1] = b + 0 + (put[t] + 1) /\ b \in Nat
      BY <1>2, <2>1, <2>3
    <3> HIDE DEF b
    <3>2. arg[t][put[t] + 1] = (b + put[t]) + 1
      BY <1>1, <3>1
    <3> QED BY <1>3, <3>2 DEF Source, Landed, b
  <2>5. Landed(t) + 1 <= Len(made[t])
    <3> DEFINE la == Len(arg[t])
               lb == Len(buff[t])
               lm == Len(made[t])
               p == put[t]
    <3>1. /\ la \in Nat /\ lb = 0 /\ lm \in Nat /\ p \in Nat /\ p + 1 \in 1..la
          /\ Base(t) = lm - lb - la
      BY <1>1, <1>2, <2>1, <2>2 DEF Base
    <3> HIDE DEF la, lb, lm, p
    <3>2. Base(t) + p + 1 <= lm
      BY <3>1
    <3> QED BY <3>2 DEF Landed, lm, p
  <2> QED BY <2>4, <2>5
<1>4. CASE pc[t] # "oversize"
  <2>1. put[t] + 1 \in 1..Len(buff[t])
    BY <1>1, <1>2, <1>4 DEF Source
  <2>2. buff[t][put[t] + 1] = Base(t) + (put[t] + 1)
    BY <2>1 DEF StreamInv, Runs
  <2> QED BY <1>1, <1>2, <1>4, <2>1, <2>2, SMTT(30) DEF Source, Landed, Base, TypeOK
<1> QED BY <1>3, <1>4

(* Every step keeps what is known of the bytes in the file. *)
LEMMA LandingStep ==
    ASSUME TypeOK, LocalInv, StreamInv, [Next]_vars
    PROVE  Landing'
<1>1. \A u \in Threads : RunKept(u)
  BY RunsStep DEF StreamInv
<1>2. \A u \in Threads : Landed(u) \in Nat /\ (out' = out => Landed(u)' = Landed(u))
  BY <1>1, Lengths DEF StreamInv, Runs, RunKept, Landed
<1>3. Landing /\ out \in Seq(Entries) /\ Len(out) \in Nat
  BY LenProperties DEF StreamInv, TypeOK
<1>4. \A i \in 1..Len(out) : out[i].thr \in Threads /\ out[i].pos \in Nat
  <2>1. \A i \in 1..Len(out) : out[i] \in Entries
    BY <1>3, ElementOfSeq
  <2> QED BY <2>1 DEF Entries
<1>5. CASE out' = out
  BY <1>2, <1>3, <1>4, <1>5 DEF Landing
<1>6. ASSUME NEW t \in Threads, Put(t) PROVE Landing'
  <2> DEFINE n == Len(out) + 1
             e == [thr |-> t, pos |-> Landed(t) + 1, to |-> sink]
  <2>1. Source(t)[put[t] + 1] = Landed(t) + 1
    BY <1>6, NextByte
  <2>2. out' = Append(out, e) /\ e \in Entries
    BY <1>2, <1>6, <2>1, SMTT(30) DEF Put, TypeOK, Entries
  <2>3. Len(out') = n /\ out'[n] = e /\ \A i \in 1..Len(out) : out'[i] = out[i]
    BY <1>3, <2>2, AppendProperties
  <2>4. Landed(t)' = Landed(t) + 1
    BY <1>2, <1>6, Lengths DEF Put, Landed, Base, TypeOK, StreamInv, Runs
  <2>5. \A u \in Threads \ {t} : Landed(u)' = Landed(u)
    BY <1>6 DEF Put, Landed, Base, TypeOK
  <2>6. \A u \in Threads : \A i \in 1..n : out'[i].thr = u => out'[i].pos \in 1..(Landed(u)')
    <3> SUFFICES ASSUME NEW u \in Threads, NEW i \in 1..n, out'[i].thr = u
                 PROVE  out'[i].pos \in 1..(Landed(u)')
      OBVIOUS
    <3>1. CASE i = n
      BY <1>2, <2>3, <2>4, <3>1
    <3>2. CASE i # n
      <4>1. i \in 1..Len(out) /\ out'[i] = out[i]
        BY <1>3, <2>3, <3>2
      <4>2. out[i].pos \in 1..Landed(u)
        BY <1>3, <4>1 DEF Landing
      <4>3. Landed(u) \in Nat /\ Landed(u)' \in {Landed(u), Landed(u) + 1}
        BY <1>2, <2>4, <2>5
      <4> QED BY <4>1, <4>2, <4>3
    <3> QED BY <3>1, <3>2
  <2>7. \A u \in Threads : \A p \in 1..(Landed(u)') :
            \E i \in 1..n : out'[i].thr = u /\ out'[i].pos = p
    <3> SUFFICES ASSUME NEW u \in Threads, NEW p \in 1..(Landed(u)')
                 PROVE  \E i \in 1..n : out'[i].thr = u /\ out'[i].pos = p
      OBVIOUS
    <3>1. CASE u = t /\ p = Landed(t) + 1
      <4>1. n \in 1..n
        BY <1>3
      <4> QED BY <2>3, <3>1, <4>1
    <3>2. CASE ~(u = t /\ p = Landed(t) + 1)
      <4>1. p \in 1..Landed(u)
        BY <1>2, <2>4, <2>5, <3>2
      <4>2. PICK i \in 1..Len(out) : out[i].thr = u /\ out[i].pos = p
        BY <1>3, <4>1 DEF Landing
      <4>3. i \in 1..n
        BY <1>3
      <4> QED BY <2>3, <4>2, <4>3
    <3> QED BY <3>1, <3>2
  <2>8. \A i, j \in 1..n : i < j /\ out'[i].thr = out'[j].thr => out'[i].pos < out'[j].pos
    <3> SUFFICES ASSUME NEW i \in 1..n, NEW j \in 1..n, i < j, out'[i].thr = out'[j].thr
                 PROVE  out'[i].pos < out'[j].pos
      OBVIOUS
    <3>1. i \in 1..Len(out) /\ out'[i] = out[i]
      BY <1>3, <2>3
    <3>2. CASE j = n
      <4>1. out[i].thr = t /\ out'[j].pos = Landed(t) + 1
        BY <2>3, <3>1, <3>2
      <4>2. out[i].pos \in 1..Landed(t)
        BY <1>3, <3>1, <4>1 DEF Landing
      <4> QED BY <1>2, <3>1, <4>1, <4>2
    <3>3. CASE j # n
      <4>1. j \in 1..Len(out) /\ out'[j] = out[j]
        BY <1>3, <2>3, <3>3
      <4> QED BY <1>3, <3>1, <4>1 DEF Landing
    <3> QED BY <3>2, <3>3
  <2> QED BY <2>3, <2>6, <2>7, <2>8 DEF Landing
<1>7. (\E t \in Threads : Put(t)) \/ out' = out
  BY StepCases DEF Begin, Commit, FlushEmpty, Lock, FlushDone, DirectDone, Release, Restage,
                   CallFlush, WriteFast, WriteFile, Produce, MoveAssign, vars
<1> QED BY <1>5, <1>6, <1>7

(* The file has the first bytes of each thread, in order, and the thread's *)
(* buffer and waiting call have the ones that follow.                      *)
THEOREM StreamCorrect == Spec => []StreamInv
<1>1. Init => StreamInv
  BY EmptySeq DEF Init, StreamInv, Runs, Landing, Landed, Base
<1>2. TypeOK /\ LocalInv /\ StreamInv /\ [Next]_vars => StreamInv'
  BY RunsStep, LandingStep DEF StreamInv, RunKept
<1> QED BY <1>1, <1>2, TypeCorrect, LocalCorrect, PTL DEF Spec

(* What is left of a run when its first p elements are dropped. *)
LEMMA RunDrop ==
    ASSUME NEW s \in Seq(Nat), NEW base \in Nat, NEW p \in Nat, p <= Len(s),
           \A k \in 1..Len(s) : s[k] = base + k
    PROVE  /\ SubSeq(s, p + 1, Len(s)) \in Seq(Nat)
           /\ Len(SubSeq(s, p + 1, Len(s))) = Len(s) - p
           /\ \A k \in 1..(Len(s) - p) : SubSeq(s, p + 1, Len(s))[k] = base + p + k
<1> DEFINE n == Len(s)
           r == SubSeq(s, p + 1, n)
<1>1. n \in Nat /\ p <= n /\ \A i \in 1..n : s[i] \in Nat
  BY LenProperties, ElementOfSeq
<1>2. p + 1 \in Int /\ n \in Int /\ \A i \in (p + 1)..n : s[i] \in Nat
  BY <1>1
<1>3. /\ r \in Seq(Nat)
      /\ Len(r) = IF p + 1 <= n THEN n - (p + 1) + 1 ELSE 0
      /\ \A i \in 1..(n - (p + 1) + 1) : r[i] = s[(p + 1) + i - 1]
  BY <1>2, SubSeqProperties
<1> HIDE DEF r
<1>4. Len(r) = n - p
  BY <1>1, <1>3
<1>5. ASSUME NEW k \in 1..(n - p) PROVE r[k] = base + p + k
  <2>1. k \in 1..(n - (p + 1) + 1) /\ (p + 1) + k - 1 = p + k /\ p + k \in 1..n
    BY <1>1
  <2>2. r[k] = s[p + k]
    BY <1>3, <2>1
  <2>3. s[p + k] = base + (p + k)
    BY <2>1
  <2> QED BY <1>1, <2>2, <2>3 DEF TypeOK
<1> QED BY <1>3, <1>4, <1>5 DEF r

(* What t has written and the file has not are the positions after         *)
(* Landed(t), in order.                                                    *)
LEMMA WaitingRun ==
    ASSUME TypeOK, LocalInv, StreamInv, NEW t \in Threads
    PROVE  /\ Waiting(t) \in Seq(Nat)
           /\ Len(made[t]) - Len(Waiting(t)) = Landed(t)
           /\ \A k \in DOMAIN Waiting(t) : Waiting(t)[k] = Landed(t) + k
<1>0. buff[t] \in Seq(Nat) /\ arg[t] \in Seq(Nat)
  BY Lengths
<1>1. /\ Len(buff[t]) \in Nat /\ Len(arg[t]) \in Nat
      /\ Len(made[t]) \in Nat /\ put[t] \in Nat
  BY Lengths
<1>2. put[t] <= Len(buff[t]) + Len(arg[t])
  <2>1. Local(t)
    BY DEF LocalInv
  <2>2. put[t] <= Len(Source(t)) \/ put[t] = 0
    BY <2>1 DEF Local
  <2>3. Len(Source(t)) \in {Len(buff[t]), Len(arg[t])}
    BY DEF Source
  <2> QED BY <1>1, <2>2, <2>3 DEF TypeOK
<1>3. Runs(t) /\ Base(t) \in Nat
  BY DEF StreamInv, Runs
<1>4. /\ Staged(t) \in Seq(Nat) /\ Len(Staged(t)) = Len(buff[t]) + Len(arg[t])
      /\ \A k \in 1..Len(Staged(t)) : Staged(t)[k] = Base(t) + k
  BY <1>0, <1>3, RunConcat DEF Staged, Runs
<1>5. put[t] <= Len(Staged(t))
  BY <1>2, <1>4
<1>6. /\ Waiting(t) \in Seq(Nat)
      /\ Len(Waiting(t)) = Len(Staged(t)) - put[t]
      /\ \A k \in 1..(Len(Staged(t)) - put[t]) : Waiting(t)[k] = Base(t) + put[t] + k
  BY <1>1, <1>3, <1>4, <1>5, RunDrop DEF Waiting
<1>7. Len(made[t]) - Len(Waiting(t)) = Landed(t)
  <2>1. Len(Waiting(t)) = Len(buff[t]) + Len(arg[t]) - put[t]
    BY <1>4, <1>6 DEF TypeOK
  <2> QED BY <1>1, <2>1 DEF Landed, Base, TypeOK
<1>8. DOMAIN Waiting(t) = 1..(Len(Staged(t)) - put[t])
  BY <1>6, LenProperties
<1> QED BY <1>6, <1>7, <1>8 DEF Landed

(* No flush, oversize write or restaging loses, repeats or reorders a byte *)
(* of any thread.                                                          *)
THEOREM StreamsArriveIntact == Spec => []StreamIntact
<1>1. ASSUME TypeOK, LocalInv, StreamInv, NEW t \in Threads
      PROVE  LET landed == Len(made[t]) - Len(Waiting(t))
                 mine == {i \in DOMAIN out : out[i].thr = t}
             IN  /\ {out[i].pos : i \in mine} = 1..landed
                 /\ \A i, j \in mine : i < j => out[i].pos < out[j].pos
                 /\ \A k \in DOMAIN Waiting(t) : Waiting(t)[k] = landed + k
  <2>1. DOMAIN out = 1..Len(out)
    BY <1>1, LenProperties DEF TypeOK
  <2> DEFINE mine == {i \in 1..Len(out) : out[i].thr = t}
  <2>2. {out[i].pos : i \in mine} = 1..Landed(t)
    BY <1>1 DEF StreamInv, Landing
  <2>3. \A i, j \in mine : i < j => out[i].pos < out[j].pos
    BY <1>1 DEF StreamInv, Landing
  <2>4. /\ Len(made[t]) - Len(Waiting(t)) = Landed(t)
        /\ \A k \in DOMAIN Waiting(t) : Waiting(t)[k] = Landed(t) + k
    BY <1>1, WaitingRun
  <2> QED BY <2>1, <2>2, <2>3, <2>4
<1>2. TypeOK /\ LocalInv /\ StreamInv => StreamIntact
  BY <1>1 DEF StreamIntact
<1> QED BY <1>2, TypeCorrect, LocalCorrect, StreamCorrect, PTL

(* The flush of ~Buffer leaves nothing behind: a thread that has exited    *)
(* has no byte that the file lacks.                                        *)
THEOREM ExitLosesNothing == Spec => []ExitDrains
<1>1. ASSUME TypeOK, LocalInv, StreamInv, NEW t \in Threads, pc[t] = "gone"
      PROVE  Waiting(t) = <<>>
  <2>1. buff[t] = <<>> /\ arg[t] = <<>> /\ put[t] = 0
    BY <1>1 DEF LocalInv, Local, ForCall, Writing
  <2>2. Staged(t) = <<>> /\ Len(Staged(t)) = 0
    BY <2>1, ConcatEmptySeq, EmptySeq DEF Staged
  <2> QED BY <2>1, <2>2, SubSeqEmpty DEF Waiting
<1>2. TypeOK /\ LocalInv /\ StreamInv => ExitDrains
  BY <1>1 DEF ExitDrains
<1> QED BY <1>2, TypeCorrect, LocalCorrect, StreamCorrect, PTL

-----------------------------------------------------------------------------
(* The calls.  A call's bytes carry its first position, so k ends a call   *)
(* when the byte after k begins one; neither what has left the buffer nor  *)
(* the buffer itself ends in the middle of a call.  And while a transfer   *)
(* is running nothing lands behind its first byte but its own bytes.       *)
Ordered(m) == \A p, q \in 1..Len(m) :
    m[p].call <= p /\ (p <= q => m[p].call <= m[q].call)

Boundary(m, k) == k + 1 \in 1..Len(m) => m[k + 1].call = k + 1

Calls(t) == /\ Ordered(made[t])
            /\ Boundary(made[t], Base(t))
            /\ Boundary(made[t], Base(t) + Len(buff[t]))

Together == \A t \in Threads : \A i \in 1..Len(out) :
    out[i].thr = t /\ out[i].pos > Base(t) => \A j \in i..Len(out) : out[j].thr = t

CallsInv == Together /\ CallsContiguous /\ \A t \in Threads : Calls(t)

(* The two ends that must be boundaries only ever move to each other's     *)
(* place or to the end of what has been written; or a call is added there. *)
Ends(u) == {Base(u), Base(u) + Len(buff[u]), Len(made[u])}

CallsKept(u) == Calls(u)' /\ Base(u)' >= Base(u)

(* A step that writes nothing new, and moves both ends to ends, keeps the  *)
(* calls of u.                                                             *)
LEMMA EndsMoved ==
    ASSUME TypeOK, NEW u \in Threads, Calls(u), made'[u] = made[u],
           Base(u)' \in Ends(u), Base(u)' + Len(buff'[u]) \in Ends(u)
    PROVE  Calls(u)'
<1>1. Boundary(made[u], Len(made[u]))
  BY Lengths DEF Boundary
<1>2. \A k \in Ends(u) : Boundary(made[u], k)
  BY <1>1 DEF Ends, Calls
<1> QED BY <1>2 DEF Calls

(* A call appended to the bytes written: where the calls end. *)
LEMMA CallAppended ==
    ASSUME NEW m \in Seq(Origins), NEW m2 \in Seq(Origins), NEW n \in Nat \ {0}, Ordered(m),
           Len(m2) = Len(m) + n,
           \A k \in 1..Len(m) : m2[k] = m[k],
           \A k \in 1..n : m2[Len(m) + k].call = Len(m) + 1
    PROVE  /\ Ordered(m2) /\ Boundary(m2, Len(m)) /\ Boundary(m2, Len(m2))
           /\ \A k \in 0..Len(m) : Boundary(m, k) => Boundary(m2, k)
<1>1. Len(m) \in Nat /\ Len(m2) \in Nat
  BY LenProperties
<1>2. \A p \in 1..Len(m2) : p > Len(m) => m2[p].call = Len(m) + 1
  <2> SUFFICES ASSUME NEW p \in 1..Len(m2), p > Len(m) PROVE m2[p].call = Len(m) + 1
    OBVIOUS
  <2>1. p - Len(m) \in 1..n /\ Len(m) + (p - Len(m)) = p
    BY <1>1
  <2> QED BY <2>1
<1>3. \A p \in 1..Len(m) : m[p].call \in Nat
  <2>1. \A p \in 1..Len(m) : m[p] \in Origins
    BY ElementOfSeq
  <2> QED BY <2>1 DEF Origins
<1>4. Ordered(m2)
  <2> SUFFICES ASSUME NEW p \in 1..Len(m2), NEW q \in 1..Len(m2)
               PROVE  m2[p].call <= p /\ (p <= q => m2[p].call <= m2[q].call)
    BY DEF Ordered
  <2>1. CASE p > Len(m)
    BY <1>1, <1>2, <2>1
  <2>2. CASE p \in 1..Len(m) /\ q \in 1..Len(m)
    BY <2>2 DEF Ordered
  <2>3. CASE p \in 1..Len(m) /\ q > Len(m)
    <3>1. m2[p].call <= p /\ m2[p].call \in Nat
      BY <1>3, <2>3 DEF Ordered
    <3> QED BY <1>1, <1>2, <2>3, <3>1
  <2> QED BY <1>1, <2>1, <2>2, <2>3
<1>5. Boundary(m2, Len(m))
  BY <1>1, <1>2 DEF Boundary
<1>6. Boundary(m2, Len(m2))
  BY <1>1 DEF Boundary
<1>7. ASSUME NEW k \in 0..Len(m), Boundary(m, k) PROVE Boundary(m2, k)
  <2>1. CASE k = Len(m)
    BY <1>5, <2>1
  <2>2. CASE k # Len(m)
    <3>1. k + 1 \in 1..Len(m)
      BY <1>1, <2>2
    <3> QED BY <1>7, <3>1 DEF Boundary
  <2> QED BY <2>1, <2>2
<1> QED BY <1>4, <1>5, <1>6, <1>7

(* A step that makes a call, and moves the second end there, keeps the     *)
(* calls of u.                                                             *)
LEMMA CallAdded ==
    ASSUME TypeOK, NEW u \in Threads, NEW n \in 1..MaxCall, Calls(u), Produce(u, n),
           Base(u) \in 0..Len(made[u]), Base(u)' = Base(u),
           Base(u)' + Len(buff'[u]) \in {Len(made[u]), Len(made'[u])}
    PROVE  Calls(u)'
<1> DEFINE m == made[u]
           m2 == made'[u]
<1>1. n \in Nat \ {0} /\ m \in Seq(Origins)
  BY BoundsAssumption, Lengths
<1>2. /\ m2 \in Seq(Origins) /\ Len(m2) = Len(m) + n
      /\ \A k \in 1..Len(m) : m2[k] = m[k]
      /\ \A k \in 1..n : m2[Len(m) + k].call = Len(m) + 1
  BY Produced
<1>3. Ordered(m) /\ Boundary(m, Base(u)) /\ Base(u) \in 0..Len(m)
  BY DEF Calls
<1> HIDE DEF m, m2
<1>4. /\ Ordered(m2) /\ Boundary(m2, Len(m)) /\ Boundary(m2, Len(m2))
      /\ \A k \in 0..Len(m) : Boundary(m, k) => Boundary(m2, k)
  BY <1>1, <1>2, <1>3, CallAppended
<1>5. Boundary(m2, Base(u))
  BY <1>3, <1>4
<1> QED BY <1>4, <1>5 DEF Calls, m, m2

(* Every step keeps the calls of u, and its bytes never come back. *)
LEMMA CallsStep ==
    ASSUME TypeOK, LocalInv, StreamInv, NEW u \in Threads, Calls(u), [Next]_vars
    PROVE  CallsKept(u)
<1>1. /\ buff[u] \in Seq(Nat) /\ Len(buff[u]) \in Nat
      /\ arg[u] \in Seq(Nat) /\ Len(arg[u]) \in Nat
      /\ Len(made[u]) \in Nat /\ Base(u) \in Nat
  BY Lengths DEF StreamInv, Runs
<1>2. ASSUME made'[u] = made[u], buff'[u] = buff[u], arg'[u] = arg[u] PROVE CallsKept(u)
  <2>1. Base(u)' = Base(u)
    BY <1>2 DEF Base
  <2> QED BY <1>1, <1>2, <2>1, EndsMoved DEF Ends, CallsKept
<1>3. ASSUME NEW t \in Threads, Put(t) PROVE CallsKept(u)
  BY <1>2, <1>3 DEF Put
<1>4. ASSUME NEW t \in Threads, FlushDone(t) PROVE CallsKept(u)
  <2>1. CASE t # u
    BY <1>2, <1>4, <2>1 DEF FlushDone, Release, TypeOK
  <2>2. CASE t = u
    <3>1. made'[u] = made[u] /\ Len(buff'[u]) = 0 /\ arg'[u] = arg[u]
      BY <1>4, <2>2, EmptySeq DEF FlushDone, Release, TypeOK
    <3>2. Base(u)' = Base(u) + Len(buff[u]) /\ Base(u)' + Len(buff'[u]) = Base(u) + Len(buff[u])
      BY <1>1, <3>1 DEF Base, TypeOK
    <3> QED BY <1>1, <3>1, <3>2, EndsMoved, SMTT(30) DEF Ends, CallsKept, TypeOK
  <2> QED BY <2>1, <2>2
<1>5. ASSUME NEW t \in Threads, DirectDone(t) PROVE CallsKept(u)
  <2>1. CASE t # u
    BY <1>2, <1>5, <2>1 DEF DirectDone, Release, TypeOK
  <2>2. CASE t = u
    <3>1. buff[u] = <<>> /\ Len(buff[u]) = 0
      BY <1>5, <2>2, EmptySeq DEF DirectDone, LocalInv, Local
    <3>2. buff'[u] = buff[u] /\ made'[u] = made[u] /\ Len(arg'[u]) = 0
      BY <1>5, <2>2, EmptySeq DEF DirectDone, Release, TypeOK
    <3>3. /\ Base(u)' = Len(made[u]) /\ Base(u)' + Len(buff'[u]) = Len(made[u])
          /\ Base(u) <= Len(made[u])
      BY <1>1, <3>1, <3>2 DEF Base, TypeOK
    <3> QED BY <1>1, <3>2, <3>3, EndsMoved DEF Ends, CallsKept
  <2> QED BY <2>1, <2>2
<1>6. ASSUME NEW t \in Threads, Restage(t) PROVE CallsKept(u)
  <2>1. CASE t # u
    BY <1>2, <1>6, <2>1 DEF Restage, TypeOK
  <2>2. CASE t = u
    <3>1. buff[u] = <<>> /\ Len(arg[u]) <= Cap /\ Len(buff[u]) = 0
      BY <1>6, <2>2, EmptySeq DEF Restage, LocalInv, Local
    <3>2. Appended(buff[u], arg[u]) = arg[u]
      BY <1>1, <3>1, AppendedToEmpty
    <3>3. Len(arg'[u]) = 0 /\ buff'[u] = arg[u] /\ made'[u] = made[u]
      BY <1>6, <2>2, <3>2, EmptySeq DEF Restage, TypeOK
    <3>4. Base(u)' = Base(u) /\ Base(u)' + Len(buff'[u]) = Len(made[u])
      BY <1>1, <3>1, <3>3 DEF Base, TypeOK
    <3> QED BY <1>1, <3>3, <3>4, EndsMoved DEF Ends, CallsKept
  <2> QED BY <2>1, <2>2
<1>7. ASSUME NEW t \in Threads, NEW n \in 1..MaxCall, WriteFast(t, n) \/ WriteFile(t, n)
      PROVE  CallsKept(u)
  <2>1. Produce(t, n) /\ pc[t] = "record" /\ n \in Nat
    <3>1. Produce(t, n)
      BY <1>7 DEF WriteFast, WriteFile
    <3> QED BY <3>1, BoundsAssumption DEF Produce
  <2>2. CASE t # u
    <3>1. made'[u] = made[u]
      BY <2>1, <2>2, Produced
    <3> QED BY <1>2, <1>7, <2>2, <3>1 DEF WriteFast, WriteFile, TypeOK
  <2>3. CASE t = u
    <3>1. Len(arg[u]) = 0
      BY <2>1, <2>3, EmptySeq DEF LocalInv, Local, ForCall
    <3>2. Produce(u, n)
      BY <2>1, <2>3
    <3>3. Len(made'[u]) = Len(made[u]) + n /\ Data(u, n) \in Seq(Nat) /\ Len(Data(u, n)) = n
      BY <3>2, Produced
    <3>4. Len(buff[u] \o Data(u, n)) = Len(buff[u]) + n
      <4> DEFINE d == Data(u, n)
      <4>1. d \in Seq(Nat) /\ Len(d) = n
        BY <3>3
      <4> HIDE DEF d
      <4>2. Len(buff[u] \o d) = Len(buff[u]) + Len(d)
        BY <1>1, <4>1, ConcatNats
      <4> QED BY <4>1, <4>2 DEF d
    <3>5. \/ Len(buff'[u]) = Len(buff[u]) + n /\ arg'[u] = arg[u]
          \/ buff'[u] = buff[u] /\ Len(arg'[u]) = n
      BY <1>7, <2>3, <3>3, <3>4 DEF WriteFast, WriteFile, TypeOK
    <3>6. Base(u) \in 0..Len(made[u]) /\ Base(u) + Len(buff[u]) = Len(made[u])
      BY <1>1, <3>1 DEF Base, TypeOK
    <3>7. Base(u)' = Base(u) /\ Base(u)' + Len(buff'[u]) \in {Len(made[u]), Len(made'[u])}
      <4> DEFINE lb == Len(buff[u])
                 lb2 == Len(buff'[u])
                 la2 == Len(arg'[u])
                 lm == Len(made[u])
                 lm2 == Len(made'[u])
      <4>1. Base(u) + lb = lm /\ lb \in Nat /\ lm \in Nat /\ Base(u) \in Nat /\ lm2 = lm + n
        BY <1>1, <3>3, <3>6
      <4>2. Base(u)' = lm2 - lb2 - la2
        BY DEF Base
      <4>3. (lb2 = lb + n /\ la2 = 0) \/ (lb2 = lb /\ la2 = n)
        BY <3>1, <3>5
      <4>4. n \in Nat
        BY <2>1
      <4> HIDE DEF lb, lb2, la2, lm, lm2
      <4>5. Base(u)' = Base(u) /\ Base(u)' + lb2 \in {lm, lm2}
        BY <4>1, <4>2, <4>3, <4>4
      <4> QED BY <4>5 DEF lb2, lm, lm2
    <3>8. Calls(u)'
      BY <3>2, <3>6, <3>7, CallAdded
    <3> QED BY <1>1, <3>7, <3>8 DEF CallsKept
  <2> QED BY <2>2, <2>3
<1>8. ASSUME UNCHANGED <<buff, arg, made>> PROVE CallsKept(u)
  BY <1>2, <1>8
<1>9. ASSUME NEW t \in Threads,
             Begin(t) \/ Commit(t) \/ FlushEmpty(t) \/ Lock(t)
             \/ \E r \in {"idle", "gone"} : CallFlush(t, r)
      PROVE  CallsKept(u)
  BY <1>8, <1>9 DEF Begin, Commit, FlushEmpty, Lock, CallFlush
<1>10. CASE MoveAssign \/ UNCHANGED vars
  BY <1>8, <1>10 DEF MoveAssign, vars
<1> QED BY StepCases, <1>3, <1>4, <1>5, <1>6, <1>7, <1>9, <1>10

(* What has been written stays what it was. *)
LEMMA MadeGrows ==
    ASSUME TypeOK, NEW u \in Threads, [Next]_vars
    PROVE  \A k \in 1..Len(made[u]) : made'[u][k] = made[u][k]
<1>1. ASSUME NEW t \in Threads, NEW n \in 1..MaxCall, WriteFast(t, n) \/ WriteFile(t, n)
      PROVE  \A k \in 1..Len(made[u]) : made'[u][k] = made[u][k]
  <2>1. Produce(t, n)
    BY <1>1 DEF WriteFast, WriteFile
  <2>2. \/ t = u /\ \A k \in 1..Len(made[u]) : made'[u][k] = made[u][k]
        \/ made'[u] = made[u]
    BY <2>1, Produced
  <2> QED BY <2>2
<1>2. made' = made \/ \E t \in Threads : \E n \in 1..MaxCall : WriteFast(t, n) \/ WriteFile(t, n)
  BY StepCases DEF Begin, Commit, FlushEmpty, Lock, Put, FlushDone, DirectDone, Release, Restage,
                   CallFlush, MoveAssign, vars
<1> QED BY <1>1, <1>2

(* Every step keeps a transfer together and the calls contiguous. *)
LEMMA CallsInvStep ==
    ASSUME TypeOK, LocalInv, StreamInv, CallsInv, [Next]_vars
    PROVE  CallsInv'
<1>1. /\ \A u \in Threads : Calls(u) /\ Calls(u)' /\ Base(u) \in Nat /\ Base(u)' >= Base(u)
      /\ \A u \in Threads : Base(u)' \in Nat /\ Landed(u) \in Nat
  BY CallsStep, RunsStep, Lengths, SMTT(30) DEF CallsInv, CallsKept, StreamInv, RunKept, Runs, Landed
<1>2. /\ out \in Seq(Entries) /\ Len(out) \in Nat /\ DOMAIN out = 1..Len(out)
      /\ \A i \in 1..Len(out) : out[i].thr \in Threads /\ out[i].pos \in Nat
  <2>1. out \in Seq(Entries) /\ \A i \in 1..Len(out) : out[i] \in Entries
    BY ElementOfSeq DEF TypeOK
  <2> QED BY <2>1, LenProperties DEF Entries
<1>3. ASSUME NEW i \in 1..Len(out)
      PROVE  /\ out[i].pos \in 1..Landed(out[i].thr)
             /\ out[i].pos \in 1..Len(made[out[i].thr])
             /\ made'[out[i].thr][out[i].pos] = made[out[i].thr][out[i].pos]
  <2>1. PICK t \in Threads : out[i].thr = t
    BY <1>2
  <2>2. out[i].pos \in 1..Landed(t)
    BY <2>1 DEF StreamInv, Landing
  <2>3. Landed(t) <= Len(made[t])
    <3> DEFINE lm == Len(made[t])
               lw == Len(Waiting(t))
    <3>1. lm \in Nat /\ lw \in Nat /\ lm - lw = Landed(t)
      BY WaitingRun, Lengths, LenProperties
    <3> HIDE DEF lm, lw
    <3>2. Landed(t) <= lm
      BY <3>1
    <3> QED BY <3>2 DEF lm
  <2>4. out[i].pos \in 1..Len(made[t])
    BY <1>1, <2>2, <2>3, Lengths
  <2> QED BY <2>1, <2>2, <2>4, MadeGrows
<1>4. CASE out' = out
  <2>1. Together'
    <3> SUFFICES ASSUME NEW t \in Threads, NEW i \in 1..Len(out), NEW j \in i..Len(out),
                        out[i].thr = t, out[i].pos > Base(t)'
                 PROVE  out[j].thr = t
      BY <1>4 DEF Together
    <3>1. out[i].pos > Base(t)
      BY <1>1, <1>2
    <3> QED BY <3>1 DEF CallsInv, Together
  <2>2. CallsContiguous'
    <3> SUFFICES ASSUME NEW i \in 1..Len(out), NEW j \in 1..Len(out), NEW k \in i..j,
                        out[i].thr = out[j].thr,
                        made'[out[i].thr][out[i].pos].call = made'[out[j].thr][out[j].pos].call
                 PROVE  out[k].thr = out[i].thr
      BY <1>2, <1>4 DEF CallsContiguous, Origin
    <3>1. made[out[i].thr][out[i].pos].call = made[out[j].thr][out[j].pos].call
      BY <1>3
    <3> QED BY <1>2, <3>1 DEF CallsInv, CallsContiguous, Origin
  <2> QED BY <1>1, <2>1, <2>2 DEF CallsInv
<1>5. ASSUME NEW t \in Threads, Put(t) PROVE CallsInv'
  <2> DEFINE n == Len(out) + 1
             q == Landed(t) + 1
             e == [thr |-> t, pos |-> q, to |-> sink]
             callOf(x) == made[x.thr][x.pos].call
  <2>1. q \in 1..Len(made[t]) /\ Source(t)[put[t] + 1] = q
    BY <1>1, <1>5, NextByte, Lengths
  <2>2. out' = Append(out, e) /\ e \in Entries /\ made' = made
    BY <1>1, <1>5, <2>1 DEF Put, TypeOK, Entries
  <2>3. Len(out') = n /\ out'[n] = e /\ \A i \in 1..Len(out) : out'[i] = out[i]
    BY <1>2, <2>2, AppendProperties
  <2>4. \A u \in Threads : Base(u)' = Base(u)
    BY <1>5 DEF Put, Base
  <2>5. DOMAIN out' = 1..n /\ n \in Nat
    BY <1>2, <2>2, <2>3, AppendProperties, LenProperties
  <2>6. ASSUME NEW i \in 1..Len(out), out[i].thr = t, out[i].pos > Base(t)
        PROVE  \A k \in i..n : out'[k].thr = t
    <3>1. \A k \in i..Len(out) : out[k].thr = t
      BY <2>6 DEF CallsInv, Together
    <3> QED BY <1>2, <2>3, <3>1
  <2>7. Together'
    <3> SUFFICES ASSUME NEW u \in Threads, NEW i \in 1..n,
                        out'[i].thr = u, out'[i].pos > Base(u)
                 PROVE  \A k \in i..n : out'[k].thr = u
      BY <2>3, <2>4 DEF Together
    <3>1. CASE i = n
      BY <2>3, <2>5, <3>1
    <3>2. CASE i # n
      <4>1. i \in 1..Len(out) /\ out'[i] = out[i]
        BY <1>2, <2>3, <3>2
      <4>2. u = t
        <5>1. SUFFICES ASSUME u # t PROVE FALSE
          OBVIOUS
        <5>2. put[u] = 0
          BY <1>5, <5>1 DEF Put, LocalInv, OwnLock, Local
        <5>3. Landed(u) = Base(u)
          BY <1>1, <5>2 DEF Landed
        <5>4. out[i].pos \in 1..Landed(u)
          BY <1>3, <4>1
        <5> QED BY <1>1, <4>1, <5>3, <5>4
      <4> QED BY <2>6, <4>1, <4>2
    <3> QED BY <3>1, <3>2
  <2>8. ASSUME NEW i \in 1..Len(out), out[i].thr = t, callOf(out[i]) = made[t][q].call
        PROVE  out[i].pos > Base(t)
    <3> DEFINE m == made[t]
               p == out[i].pos
               b == Base(t)
    <3>1. p \in 1..Len(m) /\ m[p].call = m[q].call /\ p \in 1..Landed(t)
      BY <1>3, <2>8
    <3>2. Ordered(m) /\ Boundary(m, b) /\ b \in Nat /\ put[t] \in Nat /\ q = b + put[t] + 1
      BY <1>1, Lengths DEF Calls, Landed
    <3>3. q \in 1..Len(m) /\ Len(m) \in Nat /\ \A k \in 1..Len(m) : m[k].call \in Nat
      <4>1. \A k \in 1..Len(m) : m[k] \in Origins
        BY Lengths, ElementOfSeq
      <4> QED BY <2>1, <4>1, Lengths DEF Origins
    <3> HIDE DEF m, p, b, q
    <3>4. b + 1 \in 1..Len(m) /\ b + 1 <= q
      BY <3>2, <3>3
    <3>5. m[b + 1].call = b + 1 /\ m[b + 1].call <= m[q].call /\ m[p].call <= p
      BY <3>1, <3>2, <3>3, <3>4 DEF Ordered, Boundary
    <3>6. p > b
      BY <3>1, <3>2, <3>3, <3>4, <3>5
    <3> QED BY <3>6 DEF p, b
  <2>9. CallsContiguous'
    <3> SUFFICES ASSUME NEW i \in 1..n, NEW j \in 1..n, NEW k \in i..j,
                        out'[i].thr = out'[j].thr, callOf(out'[i]) = callOf(out'[j])
                 PROVE  out'[k].thr = out'[i].thr
      BY <2>2, <2>5 DEF CallsContiguous, Origin
    <3>1. CASE j # n
      <4>1. /\ i \in 1..Len(out) /\ j \in 1..Len(out) /\ k \in 1..Len(out)
            /\ out'[i] = out[i] /\ out'[j] = out[j] /\ out'[k] = out[k]
        BY <1>2, <2>3, <2>5, <3>1
      <4> QED BY <1>2, <4>1 DEF CallsInv, CallsContiguous, Origin
    <3>2. CASE j = n /\ i # n
      <4>1. i \in 1..Len(out) /\ out'[i] = out[i] /\ k \in i..n
        BY <1>2, <2>3, <3>2
      <4>2. out[i].thr = t /\ callOf(out[i]) = made[t][q].call
        BY <2>3, <3>2, <4>1
      <4> QED BY <2>6, <2>8, <4>1, <4>2
    <3>3. CASE i = n
      <4>1. k = n
        BY <2>5, <3>3
      <4> QED BY <3>3, <4>1
    <3> QED BY <3>1, <3>2, <3>3
  <2> QED BY <1>1, <2>7, <2>9 DEF CallsInv
<1>6. (\E t \in Threads : Put(t)) \/ out' = out
  BY StepCases DEF Begin, Commit, FlushEmpty, Lock, FlushDone, DirectDone, Release, Restage,
                   CallFlush, WriteFast, WriteFile, Produce, MoveAssign, vars
<1> QED BY <1>4, <1>5, <1>6

(* What has left a buffer, and what waits in it, always ends with a call. *)
LEMMA CallsCorrect == Spec => []CallsInv
<1>1. Init => CallsInv
  BY EmptySeq DEF Init, CallsInv, Together, CallsContiguous, Calls, Ordered, Boundary, Base
<1>2. TypeOK /\ LocalInv /\ StreamInv /\ CallsInv /\ [Next]_vars => CallsInv'
  BY CallsInvStep
<1> QED BY <1>1, <1>2, TypeCorrect, LocalCorrect, StreamCorrect, PTL DEF Spec

(* The bytes of a write call are adjacent in the file, however the threads *)
(* interleave.                                                             *)
THEOREM CallsNeverInterleave == Spec => []CallsContiguous
<1>1. CallsInv => CallsContiguous
  BY DEF CallsInv
<1> QED BY <1>1, CallsCorrect, PTL

-----------------------------------------------------------------------------
(* FileSink implements CallLog: a transfer is published when its lock is   *)
(* released, as a whole, and everything else a thread does is a call, its  *)
(* leaving, or invisible.                                                  *)

(* The refinement mapping, as FileSink's `Abstract' has it. *)
StagedOf == [t \in Threads |-> Staged(t)]
LogOf == SubSeq(out, 1, Len(out) - InFlight)
CallsOf == [t \in Threads |-> [p \in DOMAIN made[t] |-> made[t][p].call]]
GoneOf == {t \in Threads : pc[t] = "gone"}

-----------------------------------------------------------------------------
(* While a thread transfers, the end of the file is what it transferred.   *)
Transfer(t) ==
    /\ put[t] <= Len(out)
    /\ \A i \in 1..put[t] :
           out[Len(out) - put[t] + i] = [thr |-> t, pos |-> Source(t)[i], to |-> sink]

TransferInv == \A t \in Threads : mutex = t => Transfer(t)

(* Every step keeps it: only the holder of file_mutex_ appends to the file.*)
LEMMA TransferStep ==
    ASSUME TypeOK, LocalInv, TransferInv, [Next]_vars
    PROVE  TransferInv'
<1>0. out \in Seq(Entries) /\ Len(out) \in Nat
  BY LenProperties DEF TypeOK
<1>1. ASSUME out' = out, sink' = sink,
             \A t \in Threads : mutex' = t =>
                 mutex = t /\ put'[t] = put[t] /\ Source(t)' = Source(t)
      PROVE  TransferInv'
  BY <1>1 DEF TransferInv, Transfer
<1>2. ASSUME mutex' = NoThread PROVE TransferInv'
  BY <1>2, ThreadAssumption DEF TransferInv
<1>3. ASSUME NEW t \in Threads, pc[t] \notin Writing, out' = out, sink' = sink, mutex' = mutex,
             \A u \in Threads \ {t} : /\ pc'[u] = pc[u] /\ put'[u] = put[u]
                                      /\ buff'[u] = buff[u] /\ arg'[u] = arg[u]
      PROVE  TransferInv'
  BY <1>1, <1>3 DEF LocalInv, OwnLock, Source
<1>4. ASSUME NEW t \in Threads,
             Begin(t) \/ Commit(t) \/ FlushEmpty(t) \/ Restage(t)
             \/ (\E r \in {"idle", "gone"} : CallFlush(t, r))
             \/ (\E n \in 1..MaxCall : WriteFast(t, n) \/ WriteFile(t, n))
      PROVE  TransferInv'
  BY <1>3, <1>4 DEF Begin, Commit, FlushEmpty, Restage, Return, CallFlush, WriteFast, WriteFile,
                    Produce, Writing, TypeOK
<1>5. ASSUME NEW t \in Threads, Lock(t) PROVE TransferInv'
  <2>1. mutex' = t /\ put'[t] = 0 /\ out' = out
    BY <1>5 DEF Lock, LocalInv, Local, Writing
  <2> QED BY <1>0, <2>1 DEF TransferInv, Transfer
<1>6. ASSUME NEW t \in Threads, Put(t) PROVE TransferInv'
  <2> DEFINE e == [thr |-> t, pos |-> Source(t)[put[t] + 1], to |-> sink]
  <2>1. mutex = t /\ mutex' = t /\ Source(t)' = Source(t) /\ sink' = sink
    BY <1>6 DEF Put, LocalInv, OwnLock, Source
  <2>2. put[t] \in Nat /\ put'[t] = put[t] + 1
    BY <1>6 DEF Put, TypeOK
  <2>3. e \in Entries
    <3>1. put[t] + 1 \in 1..Len(Source(t)) /\ Source(t) \in Seq(Nat)
      BY <1>6, <2>2, Lengths DEF Put, Source
    <3>2. Source(t)[put[t] + 1] \in Nat
      BY <3>1, ElementOfSeq
    <3> QED BY <3>2 DEF Entries, TypeOK
  <2>4. /\ Len(out') = Len(out) + 1 /\ out'[Len(out) + 1] = e
        /\ \A i \in 1..Len(out) : out'[i] = out[i]
    <3>1. out' = Append(out, e)
      BY <1>6 DEF Put
    <3> HIDE DEF e
    <3> QED BY <1>0, <2>3, <3>1, AppendProperties
  <2>5. Transfer(t)
    BY <2>1 DEF TransferInv
  <2>6. Transfer(t)'
    <3>1. put'[t] <= Len(out')
      BY <1>0, <2>2, <2>4, <2>5 DEF Transfer
    <3>2. ASSUME NEW i \in 1..put'[t]
          PROVE  out'[Len(out') - put'[t] + i] = [thr |-> t, pos |-> Source(t)[i], to |-> sink]
      <4>1. Len(out') - put'[t] + i = Len(out) - put[t] + i
        BY <1>0, <2>2, <2>4
      <4>2. CASE i = put[t] + 1
        <5>1. Len(out) - put[t] + i = Len(out) + 1
          BY <1>0, <2>2, <4>2
        <5> QED BY <2>4, <4>1, <4>2, <5>1
      <4>3. CASE i \in 1..put[t]
        <5>1. Len(out) - put[t] + i \in 1..Len(out)
          BY <1>0, <2>2, <2>5, <4>3 DEF Transfer
        <5> QED BY <2>4, <2>5, <4>1, <4>3, <5>1 DEF Transfer
      <4> QED BY <2>2, <4>2, <4>3
    <3> QED BY <2>1, <3>1, <3>2 DEF Transfer
  <2> QED BY <2>1, <2>6 DEF TransferInv
<1>7. ASSUME NEW t \in Threads, FlushDone(t) \/ DirectDone(t) PROVE TransferInv'
  BY <1>2, <1>7 DEF FlushDone, DirectDone, Release
<1>8. CASE MoveAssign
  BY <1>2, <1>8 DEF MoveAssign
<1>9. CASE UNCHANGED vars
  BY <1>1, <1>9 DEF vars, Source
<1> QED BY StepCases, <1>4, <1>5, <1>6, <1>7, <1>8, <1>9

(* Everything the refinement needs to know of a reachable state. *)
SinkInv == TypeOK /\ LocalInv /\ StreamInv /\ CallsInv /\ TransferInv

(* The invariants hold together in every state. *)
LEMMA SinkCorrect == Spec => []SinkInv
<1>1. Init => TransferInv
  BY ThreadAssumption DEF Init, TransferInv
<1>2. TypeOK /\ LocalInv /\ TransferInv /\ [Next]_vars => TransferInv'
  BY TransferStep
<1> QED BY <1>1, <1>2, TypeCorrect, LocalCorrect, StreamCorrect, CallsCorrect, PTL
        DEF Spec, SinkInv

-----------------------------------------------------------------------------
(* Sequences of which one continues another. *)
LEMMA SameFront ==
    ASSUME NEW S, NEW s \in Seq(S), NEW r \in Seq(S), NEW n \in 0..Len(s), n <= Len(r),
           \A i \in 1..n : r[i] = s[i]
    PROVE  SubSeq(r, 1, n) = SubSeq(s, 1, n)
<1>1. n \in Nat /\ Len(s) \in Nat /\ Len(r) \in Nat
  BY LenProperties
<1>2. \A i \in 1..n : s[i] \in S /\ r[i] \in S
  BY <1>1, ElementOfSeq
<1>3. /\ SubSeq(s, 1, n) \in Seq(S) /\ Len(SubSeq(s, 1, n)) = n
      /\ \A i \in 1..n : SubSeq(s, 1, n)[i] = s[i]
  BY <1>1, <1>2, SubSeqProperties
<1>4. /\ SubSeq(r, 1, n) \in Seq(S) /\ Len(SubSeq(r, 1, n)) = n
      /\ \A i \in 1..n : SubSeq(r, 1, n)[i] = r[i]
  BY <1>1, <1>2, SubSeqProperties
<1> QED BY <1>3, <1>4, SeqEqual

(* Concatenation begins with the first of two sequences ... *)
LEMMA InFront ==
    ASSUME NEW b \in Seq(Nat), NEW d \in Seq(Nat)
    PROVE  /\ b \o d \in Seq(Nat) /\ Len(b) <= Len(b \o d)
           /\ \A i \in 1..Len(b) : (b \o d)[i] = b[i]
<1> DEFINE s == b \o d
           m == Len(b)
           n == Len(d)
<1>1. /\ m \in Nat /\ n \in Nat /\ s \in Seq(Nat) /\ Len(s) = m + n
      /\ \A i \in 1..(m + n) : s[i] = IF i <= m THEN b[i] ELSE d[i - m]
  BY ConcatNats, LenProperties
<1> HIDE DEF s, m, n
<1>2. m <= Len(s) /\ \A i \in 1..m : s[i] = b[i]
  BY <1>1
<1> QED BY <1>1, <1>2 DEF s, m

(* ... and ends with the second. *)
LEMMA Behind ==
    ASSUME NEW b \in Seq(Nat), NEW d \in Seq(Nat)
    PROVE  SubSeq(b \o d, Len(b) + 1, Len(b \o d)) = d
<1> DEFINE s == b \o d
           r == SubSeq(s, Len(b) + 1, Len(s))
<1>1. Len(b) \in Nat /\ Len(d) \in Nat
  BY LenProperties
<1>2. /\ s \in Seq(Nat) /\ Len(s) = Len(b) + Len(d)
      /\ \A i \in 1..(Len(b) + Len(d)) : s[i] = IF i <= Len(b) THEN b[i] ELSE d[i - Len(b)]
  BY ConcatNats
<1> HIDE DEF s
<1>3. \A i \in (Len(b) + 1)..Len(s) : s[i] \in Nat
  BY <1>1, <1>2, ElementOfSeq
<1>4. /\ r \in Seq(Nat) /\ Len(r) = Len(d)
      /\ \A i \in 1..Len(d) : r[i] = s[Len(b) + i]
  <2>1. /\ r \in Seq(Nat) /\ Len(r) = IF Len(b) + 1 <= Len(s) THEN Len(s) - (Len(b) + 1) + 1 ELSE 0
        /\ \A i \in 1..(Len(s) - (Len(b) + 1) + 1) : r[i] = s[(Len(b) + 1) + i - 1]
    BY <1>1, <1>2, <1>3, SubSeqProperties
  <2> HIDE DEF r
  <2>2. Len(s) - (Len(b) + 1) + 1 = Len(d) /\ \A i \in 1..Len(d) : (Len(b) + 1) + i - 1 = Len(b) + i
    BY <1>1, <1>2
  <2>3. Len(r) = Len(d)
    BY <1>1, <1>2, <2>1
  <2>4. \A i \in 1..Len(d) : r[i] = s[Len(b) + i]
    BY <2>1, <2>2
  <2> QED BY <2>1, <2>3, <2>4
<1>5. \A i \in 1..Len(d) : s[Len(b) + i] = d[i]
  <2> SUFFICES ASSUME NEW i \in 1..Len(d) PROVE s[Len(b) + i] = d[i]
    OBVIOUS
  <2>1. Len(b) + i \in 1..(Len(b) + Len(d)) /\ ~(Len(b) + i <= Len(b)) /\ Len(b) + i - Len(b) = i
    BY <1>1
  <2> QED BY <1>2, <2>1, SMTT(30)
<1> HIDE DEF r
<1>6. r = d
  BY <1>4, <1>5, SeqEqual
<1> QED BY <1>6 DEF r, s

-----------------------------------------------------------------------------
(* Each step of FileSink under the mapping.                                *)

(* A step that leaves the mapped variables alone is a stutter of CallLog. *)
LEMMA Unseen ==
    ASSUME StagedOf' = StagedOf, LogOf' = LogOf, sink' = sink, CallsOf' = CallsOf,
           GoneOf' = GoneOf
    PROVE  UNCHANGED Abstract!vars
BY DEF Abstract!vars, StagedOf, LogOf, CallsOf, GoneOf

(* What a step leaves alone, from what it leaves alone of the state. *)
LEMMA SameStaged == ASSUME UNCHANGED <<buff, arg>> PROVE StagedOf' = StagedOf
BY DEF StagedOf, Staged

(* The log, when no byte is written and no transfer ends. *)
LEMMA SameLog ==
    ASSUME out' = out, mutex' = mutex, UNCHANGED put \/ mutex = NoThread
    PROVE  LogOf' = LogOf
BY DEF LogOf, InFlight

(* The calls that were made. *)
LEMMA SameCalls == ASSUME UNCHANGED made PROVE CallsOf' = CallsOf
BY DEF CallsOf

(* The threads that have exited, when this one does not. *)
LEMMA SameGone ==
    ASSUME TypeOK, NEW t \in Threads, NEW next \in Control \ {"gone"}, pc[t] # "gone",
           pc' = pc \/ pc' = [pc EXCEPT ![t] = next]
    PROVE  GoneOf' = GoneOf
BY DEF GoneOf, TypeOK

(* The beginning and the end of a record, the call of flush, a flush of an *)
(* empty buffer and the taking of the lock are not seen.                   *)
LEMMA ControlUnseen ==
    ASSUME SinkInv, NEW t \in Threads,
           \/ Begin(t) \/ Commit(t) \/ Lock(t)
           \/ FlushEmpty(t) /\ after[t] # "gone"
           \/ \E r \in {"idle", "gone"} : CallFlush(t, r)
    PROVE  UNCHANGED Abstract!vars
<1>0. TypeOK /\ LocalInv
  BY DEF SinkInv
<1>1. UNCHANGED <<buff, arg, out, put, sink, made>>
  BY DEF Begin, Commit, Lock, FlushEmpty, CallFlush
<1>2. LogOf' = LogOf
  <2>1. CASE Lock(t)
    <3>1. mutex = NoThread /\ mutex' = t /\ put[t] = 0 /\ put' = put
      BY <1>0, <2>1 DEF Lock, LocalInv, Local, Writing
    <3> QED BY <1>1, <3>1, ThreadAssumption DEF LogOf, InFlight
  <2>2. CASE ~Lock(t)
    <3>1. mutex' = mutex
      BY <2>2 DEF Begin, Commit, FlushEmpty, CallFlush
    <3> QED BY <1>1, <3>1, SameLog
  <2> QED BY <2>1, <2>2
<1>3. PICK next \in Control \ {"gone"} : pc[t] # "gone" /\ pc' = [pc EXCEPT ![t] = next]
  BY <1>0 DEF Begin, Commit, Lock, FlushEmpty, Return, CallFlush, TypeOK, Control, Returns, Writing
<1> QED BY <1>0, <1>1, <1>2, <1>3, SameStaged, SameCalls, SameGone, Unseen

(* A byte on its way to the file is not seen before the lock is released. *)
LEMMA PutUnseen ==
    ASSUME SinkInv, NEW t \in Threads, Put(t)
    PROVE  UNCHANGED Abstract!vars
<1>0. TypeOK /\ LocalInv /\ Transfer(t) /\ mutex = t
  BY DEF SinkInv, TransferInv, Put, LocalInv, OwnLock
<1>1. UNCHANGED <<buff, arg, mutex, sink, made, pc>>
  BY DEF Put
<1>2. LogOf' = LogOf
  <2> DEFINE e == [thr |-> t, pos |-> Source(t)[put[t] + 1], to |-> sink]
             n == Len(out) - put[t]
  <2>1. out \in Seq(Entries) /\ Len(out) \in Nat /\ put[t] \in Nat /\ put'[t] = put[t] + 1
    BY <1>0, LenProperties DEF TypeOK, Put
  <2>2. n \in 0..Len(out)
    BY <1>0, <2>1 DEF Transfer
  <2>3. out' = Append(out, e) /\ e \in Entries
    <3>1. put[t] + 1 \in 1..Len(Source(t)) /\ Source(t) \in Seq(Nat)
      BY <1>0, <2>1, Lengths DEF Put, Source
    <3>2. Source(t)[put[t] + 1] \in Nat
      BY <3>1, ElementOfSeq
    <3> QED BY <1>0, <3>2 DEF Put, Entries, TypeOK
  <2>4. Len(out') = Len(out) + 1 /\ \A i \in 1..Len(out) : out'[i] = out[i]
    <3> HIDE DEF e
    <3> QED BY <2>1, <2>3, AppendProperties
  <2>5. InFlight = put[t] /\ InFlight' = put[t] + 1 /\ Len(out') - InFlight' = n
    BY <1>0, <1>1, <2>1, <2>4, ThreadAssumption DEF InFlight
  <2>6. SubSeq(out', 1, n) = SubSeq(out, 1, n)
    <3> HIDE DEF n, e
    <3> QED BY <2>1, <2>2, <2>3, <2>4, SameFront
  <2> QED BY <2>5, <2>6 DEF LogOf
<1> QED BY <1>1, <1>2, SameStaged, SameCalls, Unseen DEF GoneOf

(* Neither is restaging: the call moves from one part of what is pending   *)
(* to the other.                                                           *)
LEMMA RestageUnseen ==
    ASSUME SinkInv, NEW t \in Threads, Restage(t)
    PROVE  UNCHANGED Abstract!vars
<1>0. TypeOK /\ LocalInv /\ buff[t] \in Seq(Nat) /\ arg[t] \in Seq(Nat)
  BY Lengths DEF SinkInv
<1>1. /\ buff[t] = <<>> /\ Appended(buff[t], arg[t]) = arg[t] /\ pc[t] = "append"
      /\ pc' = [pc EXCEPT ![t] = "record"] /\ UNCHANGED <<out, mutex, put, sink, made>>
      /\ buff'[t] = arg[t] /\ arg'[t] = <<>>
      /\ \A u \in Threads \ {t} : buff'[u] = buff[u] /\ arg'[u] = arg[u]
  <2>1. buff[t] = <<>> /\ Len(arg[t]) <= Cap /\ pc[t] = "append"
    BY <1>0 DEF Restage, LocalInv, Local
  <2>2. Appended(buff[t], arg[t]) = arg[t]
    BY <1>0, <2>1, AppendedToEmpty
  <2> QED BY <1>0, <2>1, <2>2 DEF Restage, TypeOK
<1>2. StagedOf' = StagedOf
  <2>1. Staged(t)' = Staged(t)
    BY <1>0, <1>1, ConcatEmptySeq DEF Staged
  <2>2. \A u \in Threads : Staged(u)' = Staged(u)
    BY <1>1, <2>1 DEF Staged
  <2> QED BY <2>2 DEF StagedOf
<1>3. "record" \in Control \ {"gone"}
  BY DEF Control
<1> QED BY <1>0, <1>1, <1>2, <1>3, SameLog, SameCalls, SameGone, Unseen

(* A write call is a call, whichever way the sink takes it. *)
LEMMA WriteIsCall ==
    ASSUME SinkInv, NEW t \in Threads, NEW n \in 1..MaxCall, WriteFast(t, n) \/ WriteFile(t, n)
    PROVE  Abstract!Call(t, n)
<1> DEFINE d == Data(t, n)
           cs == [p \in DOMAIN made[t] |-> made[t][p].call]
           new == [i \in 1..n |-> Len(cs) + 1]
<1>0. TypeOK /\ LocalInv /\ Runs(t) /\ n \in Nat \ {0}
  BY BoundsAssumption DEF SinkInv, StreamInv
<1>1. /\ buff[t] \in Seq(Nat) /\ Len(buff[t]) \in Nat /\ arg[t] \in Seq(Nat)
      /\ made[t] \in Seq(Origins) /\ Len(made[t]) \in Nat
  BY <1>0, Lengths
<1>2. /\ pc[t] = "record" /\ Produce(t, n) /\ Len(made[t]) + n <= MaxBytes[t]
      /\ UNCHANGED <<mutex, put, out, sink>>
  BY DEF WriteFast, WriteFile, Produce
<1>3. arg[t] = <<>>
  BY <1>0, <1>2 DEF LocalInv, Local, ForCall
<1>4. /\ Len(made'[t]) = Len(made[t]) + n /\ made'[t] \in Seq(Origins)
      /\ \A k \in 1..Len(made[t]) : made'[t][k] = made[t][k]
      /\ \A k \in 1..n : made'[t][Len(made[t]) + k].call = Len(made[t]) + 1
      /\ \A u \in Threads \ {t} : made'[u] = made[u]
      /\ d \in Seq(Nat)
  BY <1>0, <1>2, Produced
<1>5. StagedOf' = [StagedOf EXCEPT ![t] = @ \o d]
  <2>1. Staged(t) = buff[t]
    BY <1>1, <1>3, ConcatEmptySeq DEF Staged
  <2>2. Staged(t)' = Staged(t) \o d
    <3>1. CASE WriteFast(t, n)
      <4>1. buff'[t] = buff[t] \o d /\ arg'[t] = <<>>
        BY <1>0, <1>3, <3>1 DEF WriteFast, TypeOK
      <4>2. buff[t] \o d \in Seq(Nat)
        BY <1>1, <1>4, ConcatProperties
      <4> HIDE DEF d
      <4> QED BY <2>1, <4>1, <4>2, ConcatEmptySeq DEF Staged
    <3>2. CASE WriteFile(t, n)
      BY <1>0, <2>1, <3>2 DEF WriteFile, Staged, TypeOK
    <3> QED BY <3>1, <3>2
  <2>3. \A u \in Threads \ {t} : Staged(u)' = Staged(u)
    BY <1>0 DEF WriteFast, WriteFile, Staged, TypeOK
  <2> HIDE DEF d
  <2> QED BY <2>2, <2>3 DEF StagedOf
<1>6. cs \in Seq(Nat) /\ Len(cs) = Len(made[t])
  <2>1. DOMAIN made[t] = 1..Len(made[t]) /\ \A p \in 1..Len(made[t]) : made[t][p].call \in Nat
    <3>1. \A p \in 1..Len(made[t]) : made[t][p] \in Origins
      BY <1>1, ElementOfSeq
    <3> QED BY <1>1, <3>1, LenProperties DEF Origins
  <2> QED BY <1>1, <2>1
<1>7. CallsOf' = [CallsOf EXCEPT ![t] = @ \o [i \in 1..n |-> Len(@) + 1]]
  <2> DEFINE cs2 == [p \in DOMAIN made'[t] |-> made'[t][p].call]
  <2>1. cs2 \in Seq(Nat) /\ Len(cs2) = Len(made[t]) + n
        /\ \A p \in 1..Len(cs2) : cs2[p] = made'[t][p].call
    <3>1. DOMAIN made'[t] = 1..(Len(made[t]) + n)
      BY <1>4, LenProperties
    <3>2. \A p \in 1..(Len(made[t]) + n) : made'[t][p] \in Origins
      BY <1>4, ElementOfSeq
    <3>3. \A p \in 1..(Len(made[t]) + n) : made'[t][p].call \in Nat
      BY <3>2 DEF Origins
    <3> QED BY <1>0, <1>1, <3>1, <3>3
  <2>2. \A p \in 1..Len(made[t]) : cs[p] = made[t][p].call
    BY <1>1, LenProperties
  <2> HIDE DEF cs, cs2
  <2>3. new \in Seq(Nat) /\ Len(new) = n /\ \A i \in 1..n : new[i] = Len(made[t]) + 1
    BY <1>0, <1>1, <1>6
  <2> DEFINE m == Len(made[t])
  <2> HIDE DEF new, m
  <2>4. /\ cs \o new \in Seq(Nat) /\ Len(cs \o new) = m + n
        /\ \A p \in 1..(m + n) : (cs \o new)[p] = IF p <= m THEN cs[p] ELSE new[p - m]
    <3>1. Len(cs) = m
      BY <1>6 DEF m
    <3> QED BY <1>6, <2>3, <3>1, ConcatNats
  <2>5. \A p \in 1..(m + n) : cs2[p] = (cs \o new)[p]
    <3>0. m \in Nat /\ n \in Nat /\ Len(cs2) = m + n
      BY <1>0, <1>1, <2>1 DEF m
    <3> SUFFICES ASSUME NEW p \in 1..(m + n) PROVE cs2[p] = (cs \o new)[p]
      OBVIOUS
    <3>1. cs2[p] = made'[t][p].call
      BY <2>1, <3>0
    <3>2. CASE p <= m
      <4>1. p \in 1..m
        BY <3>0, <3>2
      <4>2. cs[p] = made[t][p].call /\ made'[t][p] = made[t][p]
        BY <1>4, <2>2, <4>1 DEF m
      <4> QED BY <2>4, <3>1, <3>2, <4>2
    <3>3. CASE p > m
      <4>1. p - m \in 1..n /\ p = m + (p - m)
        BY <3>0, <3>3
      <4>2. made'[t][m + (p - m)].call = m + 1
        BY <1>4, <4>1 DEF m
      <4>3. new[p - m] = m + 1
        BY <2>3, <4>1 DEF m
      <4>4. ~(p <= m)
        BY <3>0, <3>3
      <4> QED BY <2>4, <3>1, <4>1, <4>2, <4>3, <4>4
    <3>4. p <= m \/ p > m
      BY <3>0
    <3> QED BY <3>2, <3>3, <3>4
  <2>6. cs2 = cs \o new
    BY <2>1, <2>4, <2>5, SeqEqual DEF m
  <2>7. CallsOf' = [CallsOf EXCEPT ![t] = cs \o new]
    BY <1>4, <2>6 DEF CallsOf, cs2
  <2>8. CallsOf[t] = cs
    BY DEF CallsOf, cs
  <2> QED BY <2>7, <2>8 DEF new
<1>8. GoneOf' = GoneOf /\ t \notin GoneOf
  <2>1. pc' = pc \/ pc' = [pc EXCEPT ![t] = "flush"]
    BY DEF WriteFast, WriteFile
  <2>2. "flush" \in Control \ {"gone"}
    BY DEF Control
  <2> QED BY <1>0, <1>2, <2>1, <2>2, SameGone DEF GoneOf
<1>9. LogOf' = LogOf
  BY <1>2, SameLog
<1>10. Abstract!Call(t, n)
  <2> SUFFICES /\ t \notin GoneOf
               /\ Len(CallsOf[t]) + n <= MaxBytes[t]
               /\ CallsOf' = [CallsOf EXCEPT ![t] = @ \o [i \in 1..n |-> Len(@) + 1]]
               /\ StagedOf' = [StagedOf EXCEPT ![t] = @ \o [i \in 1..n |-> Len(CallsOf[t]) + i]]
               /\ UNCHANGED <<LogOf, sink, GoneOf>>
    BY DEF Abstract!Call, StagedOf, LogOf, CallsOf, GoneOf
  <2>1. CallsOf[t] = cs
    BY DEF CallsOf
  <2>2. d = [i \in 1..n |-> Len(CallsOf[t]) + i]
    BY <1>6, <2>1 DEF Data
  <2>3. Len(CallsOf[t]) + n <= MaxBytes[t]
    BY <1>2, <1>6, <2>1
  <2> HIDE DEF cs, d
  <2> QED BY <1>2, <1>5, <1>7, <1>8, <1>9, <2>2, <2>3
<1> QED BY <1>10

(* The end of a transfer: its whole source joins the log at once.  n bytes *)
(* of what is pending, for n the length of the source.                     *)
LEMMA SourceIsPending ==
    ASSUME SinkInv, NEW t \in Threads, pc[t] \in Writing
    PROVE  /\ Len(Source(t)) \in Nat /\ Staged(t) \in Seq(Nat)
           /\ Len(Source(t)) <= Len(Staged(t))
           /\ \A i \in 1..Len(Source(t)) : Staged(t)[i] = Source(t)[i]
           /\ pc[t] = "oversize" => Staged(t) = arg[t]
<1>1. TypeOK /\ LocalInv /\ buff[t] \in Seq(Nat) /\ arg[t] \in Seq(Nat)
  BY Lengths DEF SinkInv
<1>2. Len(buff[t]) \in Nat /\ Len(arg[t]) \in Nat
  BY <1>1, LenProperties
<1>3. CASE pc[t] = "oversize"
  <2>1. Staged(t) = arg[t]
    BY <1>1, <1>3, ConcatEmptySeq DEF Staged, LocalInv, Local
  <2> QED BY <1>1, <1>2, <1>3, <2>1 DEF Source
<1>4. CASE pc[t] # "oversize"
  <2>1. Source(t) = buff[t]
    BY <1>4 DEF Source
  <2>2. /\ Staged(t) \in Seq(Nat) /\ Len(buff[t]) <= Len(Staged(t))
        /\ \A i \in 1..Len(buff[t]) : Staged(t)[i] = buff[t][i]
    BY <1>1, InFront DEF Staged
  <2> QED BY <1>2, <1>4, <2>1, <2>2
<1> QED BY <1>3, <1>4

(* The end of a transfer adds its whole source to the log at once. *)
LEMMA LogGrows ==
    ASSUME SinkInv, NEW t \in Threads, FlushDone(t) \/ DirectDone(t)
    PROVE  LogOf' = LogOf \o [i \in 1..Len(Source(t)) |->
                                 [thr |-> t, pos |-> Staged(t)[i], to |-> sink]]
<1> DEFINE n == Len(Source(t))
           m == Len(out) - n
           new == [i \in 1..n |-> [thr |-> t, pos |-> Staged(t)[i], to |-> sink]]
           s == SubSeq(out, 1, m)
<1>1. pc[t] \in Writing /\ put[t] = n /\ mutex' = NoThread /\ out' = out
  BY DEF FlushDone, DirectDone, Release, Writing
<1>2. mutex = t /\ Transfer(t) /\ TypeOK
  BY <1>1 DEF SinkInv, LocalInv, OwnLock, TransferInv
<1>3. out \in Seq(Entries) /\ Len(out) \in Nat
  BY <1>2, LenProperties DEF TypeOK
<1>4. /\ n \in Nat /\ Staged(t) \in Seq(Nat) /\ n <= Len(Staged(t))
      /\ \A i \in 1..n : Staged(t)[i] = Source(t)[i]
  BY <1>1, SourceIsPending
<1>5. n <= Len(out) /\ \A i \in 1..n : out[m + i] = [thr |-> t, pos |-> Staged(t)[i], to |-> sink]
  BY <1>1, <1>2, <1>4 DEF Transfer
<1>6. new \in Seq(Entries) /\ Len(new) = n /\ \A i \in 1..n : new[i] = out[m + i]
  <2>1. \A i \in 1..n : Staged(t)[i] \in Nat
    BY <1>4, LenProperties, ElementOfSeq
  <2>2. \A i \in 1..n : [thr |-> t, pos |-> Staged(t)[i], to |-> sink] \in Entries
    BY <1>2, <2>1 DEF Entries, TypeOK
  <2> HIDE DEF n
  <2> QED BY <1>4, <1>5, <2>2
<1>7. LogOf = s /\ LogOf' = out
  <2>1. InFlight = n /\ InFlight' = 0
    BY <1>1, <1>2, ThreadAssumption DEF InFlight
  <2>2. Len(out) - 0 = Len(out)
    BY <1>3
  <2>3. SubSeq(out, 1, Len(out)) = out
    BY <1>3, SubSeqFull
  <2> QED BY <1>1, <2>1, <2>2, <2>3 DEF LogOf
<1> HIDE DEF n, new, s
<1>8. m \in 0..Len(out) /\ Len(out) = m + n
  BY <1>3, <1>4, <1>5
<1> HIDE DEF m
<1>9. s \in Seq(Entries) /\ Len(s) = m /\ \A i \in 1..m : s[i] = out[i]
  <2>1. \A i \in 1..m : out[i] \in Entries
    BY <1>3, <1>8, ElementOfSeq
  <2>2. m \in Int
    BY <1>3, <1>8
  <2> QED BY <1>8, <2>1, <2>2, SubSeqProperties DEF s
<1>10. /\ s \o new \in Seq(Entries) /\ Len(s \o new) = m + n
       /\ \A i \in 1..(m + n) : (s \o new)[i] = IF i <= m THEN s[i] ELSE new[i - m]
  BY <1>6, <1>9, ConcatProperties, ZenonT(30)
<1>11. \A i \in 1..Len(out) : (s \o new)[i] = out[i]
  <2> SUFFICES ASSUME NEW i \in 1..(m + n) PROVE (s \o new)[i] = out[i]
    BY <1>8
  <2>1. CASE i <= m
    BY <1>3, <1>8, <1>9, <1>10, <2>1
  <2>2. CASE i > m
    <3>1. i - m \in 1..n /\ i = m + (i - m) /\ ~(i <= m)
      BY <1>3, <1>4, <1>8, <2>2
    <3> QED BY <1>6, <1>10, <3>1
  <2>3. i <= m \/ i > m
    BY <1>3, <1>8
  <2> QED BY <2>1, <2>2, <2>3
<1>12. s \o new = out
  BY <1>3, <1>8, <1>10, <1>11, SeqEqual
<1> QED BY <1>7, <1>12 DEF new, n

(* The log is a part of the file. *)
LEMMA LogType == ASSUME SinkInv PROVE LogOf \in Seq(Entries)
<1>1. out \in Seq(Entries) /\ Len(out) \in Nat
  BY LenProperties DEF SinkInv, TypeOK
<1>2. InFlight \in Nat
  BY DEF SinkInv, TypeOK, InFlight
<1>3. \A i \in 1..(Len(out) - InFlight) : out[i] \in Entries
  BY <1>1, <1>2, ElementOfSeq
<1>4. 1 \in Int /\ Len(out) - InFlight \in Int
  BY <1>1, <1>2
<1> QED BY <1>3, <1>4, SubSeqProperties DEF LogOf

(* What is left pending after a transfer: all but its source. *)
LEMMA StagedShrinks ==
    ASSUME SinkInv, NEW t \in Threads, FlushDone(t) \/ DirectDone(t)
    PROVE  /\ StagedOf' = [StagedOf EXCEPT
                               ![t] = SubSeq(@, Len(Source(t)) + 1, Len(@))]
           /\ FlushDone(t) => Staged(t)' = arg[t]
<1> DEFINE n == Len(Source(t))
<1>1. TypeOK /\ LocalInv /\ buff[t] \in Seq(Nat) /\ arg[t] \in Seq(Nat) /\ pc[t] \in Writing
  BY Lengths DEF SinkInv, FlushDone, DirectDone, Writing
<1>2. Len(buff[t]) \in Nat /\ Len(arg[t]) \in Nat
  BY <1>1, LenProperties
<1>3. \A u \in Threads \ {t} : Staged(u)' = Staged(u)
  BY <1>1 DEF FlushDone, DirectDone, Staged, TypeOK
<1>4. Staged(t)' = SubSeq(Staged(t), n + 1, Len(Staged(t)))
      /\ (FlushDone(t) => Staged(t)' = arg[t])
  <2>1. CASE FlushDone(t)
    <3>1. n = Len(buff[t]) /\ buff'[t] = <<>> /\ arg'[t] = arg[t]
      BY <1>1, <2>1 DEF FlushDone, Source, TypeOK
    <3>2. Staged(t)' = arg[t]
      BY <1>1, <3>1, ConcatEmptySeq DEF Staged
    <3>3. SubSeq(Staged(t), n + 1, Len(Staged(t))) = arg[t]
      BY <1>1, <3>1, Behind DEF Staged
    <3> QED BY <3>2, <3>3
  <2>2. CASE DirectDone(t)
    <3>1. pc[t] = "oversize" /\ buff[t] = <<>> /\ buff'[t] = <<>> /\ arg'[t] = <<>>
      BY <1>1, <2>2 DEF DirectDone, LocalInv, Local, TypeOK
    <3>2. Staged(t)' = <<>> /\ n = Len(Staged(t))
      BY <1>1, <3>1, ConcatEmptySeq, EmptySeq DEF Staged, Source
    <3>3. SubSeq(Staged(t), n + 1, Len(Staged(t))) = <<>>
      <4>1. n \in Nat
        BY <1>1, SourceIsPending
      <4> QED BY <3>2, <4>1, SubSeqEmpty
    <3>4. ~FlushDone(t)
      BY <3>1 DEF FlushDone
    <3> QED BY <3>2, <3>3, <3>4
  <2> QED BY <2>1, <2>2
<1> QED BY <1>3, <1>4 DEF StagedOf

(* The end of what is transferred is the end of a call. *)
LEMMA SourceEndsCall ==
    ASSUME SinkInv, NEW t \in Threads, pc[t] \in Writing, Len(Source(t)) > 0
    PROVE  \/ Len(Source(t)) = Len(StagedOf[t])
           \/ CallsOf[t][StagedOf[t][Len(Source(t))]]
                # CallsOf[t][StagedOf[t][Len(Source(t)) + 1]]
<1> DEFINE n == Len(Source(t))
<1>1. /\ TypeOK /\ LocalInv /\ Runs(t) /\ Calls(t)
      /\ buff[t] \in Seq(Nat) /\ arg[t] \in Seq(Nat) /\ made[t] \in Seq(Origins)
      /\ Len(buff[t]) \in Nat /\ Len(arg[t]) \in Nat /\ Len(made[t]) \in Nat
  BY Lengths DEF SinkInv, StreamInv, CallsInv
<1>2. StagedOf[t] = Staged(t)
  BY DEF StagedOf
<1>3. CASE pc[t] = "oversize"
  BY <1>2, <1>3, SourceIsPending DEF Source
<1>4. CASE pc[t] # "oversize" /\ arg[t] = <<>>
  BY <1>1, <1>2, <1>4, ConcatEmptySeq DEF Staged, Source
<1>5. CASE pc[t] # "oversize" /\ arg[t] # <<>>
  <2> DEFINE k == Base(t) + n
  <2>0. n > 0
    OBVIOUS
  <2>1. n = Len(buff[t]) /\ Base(t) \in Nat /\ Len(arg[t]) > 0
    BY <1>1, <1>5, EmptySeq DEF Source, Runs
  <2>2. /\ Len(Staged(t)) = Len(buff[t]) + Len(arg[t])
        /\ \A i \in 1..Len(Staged(t)) : Staged(t)[i] = Base(t) + i
    <3> DEFINE base == Base(t)
    <3>1. /\ base \in Nat
          /\ \A i \in 1..Len(buff[t]) : buff[t][i] = base + i
          /\ \A i \in 1..Len(arg[t]) : arg[t][i] = base + Len(buff[t]) + i
      BY <1>1 DEF Runs
    <3> HIDE DEF base
    <3>2. /\ Len(buff[t] \o arg[t]) = Len(buff[t]) + Len(arg[t])
          /\ \A i \in 1..Len(buff[t] \o arg[t]) : (buff[t] \o arg[t])[i] = base + i
      BY <1>1, <3>1, RunConcat
    <3> QED BY <3>2 DEF Staged, base
  <2>3. Staged(t)[n] = k /\ Staged(t)[n + 1] = k + 1
    <3> DEFINE lb == Len(buff[t])
               la == Len(arg[t])
               ls == Len(Staged(t))
    <3>1. lb \in Nat /\ la \in Nat /\ la > 0 /\ n = lb /\ n > 0 /\ ls = lb + la /\ Base(t) \in Nat
      BY <1>1, <2>0, <2>1, <2>2
    <3> HIDE DEF lb, la, ls, n
    <3>2. n \in 1..ls /\ n + 1 \in 1..ls /\ Base(t) + (n + 1) = k + 1
      BY <3>1
    <3> QED BY <2>2, <3>2 DEF ls
  <2>4. k \in 1..Len(made[t]) /\ k + 1 \in 1..Len(made[t])
    <3> DEFINE lb == Len(buff[t])
               la == Len(arg[t])
               lm == Len(made[t])
    <3>1. lb \in Nat /\ la \in Nat /\ lm \in Nat /\ la > 0 /\ n = lb /\ n > 0
          /\ Base(t) \in Nat /\ Base(t) = lm - lb - la
      BY <1>1, <2>0, <2>1 DEF Base
    <3> HIDE DEF lb, la, lm, n
    <3>2. k \in 1..lm /\ k + 1 \in 1..lm
      BY <3>1
    <3> QED BY <3>2 DEF lm
  <2>5. made[t][k].call <= k /\ made[t][k + 1].call = k + 1
    BY <1>1, <2>1, <2>4 DEF Calls, Ordered, Boundary
  <2>6. CallsOf[t][k] = made[t][k].call /\ CallsOf[t][k + 1] = made[t][k + 1].call
    <3>1. DOMAIN made[t] = 1..Len(made[t])
      BY <1>1, LenProperties
    <3> HIDE DEF k
    <3> QED BY <2>4, <3>1 DEF CallsOf
  <2>7. CallsOf[t][k] # CallsOf[t][k + 1]
    BY <1>1, <2>1, <2>4, <2>5, <2>6
  <2> QED BY <1>2, <2>3, <2>7
<1> QED BY <1>3, <1>4, <1>5

(* A transfer that does not end the thread publishes the calls it took. *)
LEMMA TransferPublishes ==
    ASSUME SinkInv, NEW t \in Threads, (FlushDone(t) /\ after[t] # "gone") \/ DirectDone(t)
    PROVE  [Abstract!Next]_Abstract!vars
<1> DEFINE n == Len(Source(t))
<1>1. /\ TypeOK /\ pc[t] \in Writing /\ n \in Nat /\ UNCHANGED <<made, sink>>
      /\ FlushDone(t) \/ DirectDone(t)
  BY SourceIsPending DEF SinkInv, FlushDone, DirectDone, Release, Writing
<1>2. GoneOf' = GoneOf
  <2>1. PICK next \in Control \ {"gone"} : pc' = [pc EXCEPT ![t] = next]
    BY <1>1 DEF FlushDone, DirectDone, Return, TypeOK, Control, Returns
  <2>2. pc[t] # "gone"
    BY <1>1 DEF Writing
  <2> QED BY <1>1, <2>1, <2>2, SameGone
<1>3. CallsOf' = CallsOf
  BY <1>1, SameCalls
<1>4. /\ LogOf' = LogOf \o [i \in 1..n |-> [thr |-> t, pos |-> StagedOf[t][i], to |-> sink]]
      /\ StagedOf' = [StagedOf EXCEPT ![t] = SubSeq(@, n + 1, Len(@))]
  <2>1. StagedOf[t] = Staged(t)
    BY DEF StagedOf
  <2> QED BY <1>1, <2>1, LogGrows, StagedShrinks
<1>5. CASE n > 0
  <2>1. n \in DOMAIN StagedOf[t]
    <3>1. Staged(t) \in Seq(Nat) /\ n <= Len(Staged(t)) /\ StagedOf[t] = Staged(t)
      BY <1>1, SourceIsPending DEF StagedOf
    <3> HIDE DEF n
    <3> QED BY <1>1, <1>5, <3>1, LenProperties
  <2>2. n = Len(StagedOf[t]) \/ CallsOf[t][StagedOf[t][n]] # CallsOf[t][StagedOf[t][n + 1]]
    BY <1>1, <1>5, SourceEndsCall
  <2> HIDE DEF n
  <2>3. Abstract!Publish(t, n)
    BY <1>1, <1>2, <1>3, <1>4, <2>2
    DEF Abstract!Publish, Abstract!WholeCalls, Abstract!Published, StagedOf, LogOf, CallsOf, GoneOf
  <2> QED BY <2>1, <2>3 DEF Abstract!Next, StagedOf
<1>6. CASE n = 0
  <2>1. LogOf' = LogOf
    <3>1. [i \in 1..0 |-> [thr |-> t, pos |-> StagedOf[t][i], to |-> sink]] = <<>>
      OBVIOUS
    <3>2. LogOf \in Seq(Entries)
      BY <1>1, LogType
    <3> QED BY <1>4, <1>6, <3>1, <3>2, ConcatEmptySeq
  <2>2. StagedOf' = StagedOf
    <3>1. Staged(t) \in Seq(Nat)
      BY <1>1, SourceIsPending
    <3>2. SubSeq(Staged(t), n + 1, Len(Staged(t))) = Staged(t)
      BY <1>6, <3>1, SubSeqFull
    <3> QED BY <1>4, <3>2 DEF StagedOf
  <2> QED BY <1>1, <1>2, <1>3, <2>1, <2>2, Unseen
<1> QED BY <1>1, <1>5, <1>6

(* The flush of ~Buffer publishes whatever is left, and the thread leaves. *)
LEMMA ExitLeaves ==
    ASSUME SinkInv, NEW t \in Threads, FlushDone(t) \/ FlushEmpty(t), after[t] = "gone"
    PROVE  Abstract!Leave(t)
<1> DEFINE n == Len(Staged(t))
<1>1. /\ TypeOK /\ LocalInv /\ buff[t] \in Seq(Nat) /\ UNCHANGED <<made, sink>>
      /\ pc' = [pc EXCEPT ![t] = "gone"] /\ arg[t] = <<>>
  BY Lengths DEF SinkInv, FlushDone, FlushEmpty, Release, Return, LocalInv, Local, ForCall
<1>2. Staged(t) = buff[t]
  BY <1>1, ConcatEmptySeq DEF Staged
<1>3. GoneOf' = GoneOf \cup {t}
  BY <1>1 DEF GoneOf, TypeOK
<1>4. CallsOf' = CallsOf
  BY <1>1, SameCalls
<1>5. StagedOf' = [StagedOf EXCEPT ![t] = <<>>]
  <2>1. buff'[t] = <<>> /\ arg'[t] = <<>>
    BY <1>1 DEF FlushDone, FlushEmpty, TypeOK
  <2>2. Staged(t)' = <<>>
    BY <2>1, EmptySeq, ConcatEmptySeq DEF Staged
  <2>3. \A u \in Threads \ {t} : Staged(u)' = Staged(u)
    BY <1>1 DEF FlushDone, FlushEmpty, Staged, TypeOK
  <2> QED BY <2>2, <2>3 DEF StagedOf
<1>6. LogOf' = LogOf \o [i \in 1..n |-> [thr |-> t, pos |-> Staged(t)[i], to |-> sink]]
  <2>1. CASE FlushDone(t)
    <3>1. Source(t) = Staged(t)
      BY <1>2, <2>1 DEF FlushDone, Source
    <3> QED BY <2>1, <3>1, LogGrows
  <2>2. CASE FlushEmpty(t)
    <3>1. n = 0 /\ UNCHANGED <<out, mutex, put>>
      BY <1>2, <2>2, EmptySeq DEF FlushEmpty
    <3>2. LogOf' = LogOf
      BY <3>1, SameLog
    <3>3. [i \in 1..0 |-> [thr |-> t, pos |-> Staged(t)[i], to |-> sink]] = <<>>
      OBVIOUS
    <3> HIDE DEF n
    <3> QED BY <3>1, <3>2, <3>3, LogType, ConcatEmptySeq
  <2> QED BY <2>1, <2>2
<1>7. StagedOf[t] = Staged(t)
  BY DEF StagedOf
<1>8. /\ LogOf' = LogOf \o [i \in 1..Len(StagedOf[t]) |->
                                [thr |-> t, pos |-> StagedOf[t][i], to |-> sink]]
      /\ StagedOf' = [StagedOf EXCEPT ![t] = <<>>]
      /\ GoneOf' = GoneOf \cup {t} /\ sink' = sink /\ CallsOf' = CallsOf
  BY <1>1, <1>3, <1>4, <1>5, <1>6, <1>7
<1> QED BY <1>8 DEF Abstract!Leave, Abstract!Published, StagedOf, LogOf, CallsOf, GoneOf

(* init() installs the next file between two transfers. *)
LEMMA InitOpens == ASSUME MoveAssign PROVE Abstract!Open
<1>1. LogOf' = LogOf
  BY SameLog DEF MoveAssign
<1>2. StagedOf' = StagedOf /\ CallsOf' = CallsOf /\ GoneOf' = GoneOf
  BY SameStaged, SameCalls DEF MoveAssign, GoneOf
<1> QED BY <1>1, <1>2 DEF Abstract!Open, MoveAssign, StagedOf, LogOf, CallsOf, GoneOf

-----------------------------------------------------------------------------
(* FileSink implements CallLog: to its callers a shared file sink is a log *)
(* that grows by whole write calls, each thread's in order, to which every *)
(* thread has added all of its calls when it leaves.                       *)
THEOREM FileSinkImplementsCallLog == Spec => ImplementsCallLog
<1>1. Init => Abstract!Init
  <2> SUFFICES ASSUME Init PROVE Abstract!Init
    OBVIOUS
  <2>1. StagedOf = [t \in Threads |-> <<>>]
    <3>1. \A t \in Threads : Staged(t) = <<>>
      BY EmptySeq, ConcatEmptySeq DEF Init, Staged
    <3> QED BY <3>1 DEF StagedOf
  <2>2. LogOf = <<>>
    BY EmptySeq, SubSeqEmpty DEF Init, LogOf, InFlight
  <2>3. CallsOf = [t \in Threads |-> <<>>]
    BY DEF Init, CallsOf
  <2>4. GoneOf = {}
    BY DEF Init, GoneOf
  <2> QED BY <2>1, <2>2, <2>3, <2>4 DEF Abstract!Init, Init, StagedOf, LogOf, CallsOf, GoneOf
<1>2. SinkInv /\ [Next]_vars => [Abstract!Next]_Abstract!vars
  <2> SUFFICES ASSUME SinkInv, [Next]_vars PROVE [Abstract!Next]_Abstract!vars
    OBVIOUS
  <2>1. ASSUME NEW t \in Threads,
               FlushEmpty(t) \/ FlushDone(t) \/ DirectDone(t)
        PROVE  [Abstract!Next]_Abstract!vars
    <3>1. CASE after[t] = "gone" /\ ~DirectDone(t)
      BY <2>1, <3>1, ExitLeaves DEF Abstract!Next
    <3>2. CASE after[t] # "gone" \/ DirectDone(t)
      BY <2>1, <3>2, ControlUnseen, TransferPublishes DEF FlushEmpty, FlushDone, DirectDone
    <3> QED BY <3>1, <3>2
  <2>2. ASSUME NEW t \in Threads, NEW n \in 1..MaxCall, WriteFast(t, n) \/ WriteFile(t, n)
        PROVE  [Abstract!Next]_Abstract!vars
    BY <2>2, WriteIsCall DEF Abstract!Next
  <2>3. ASSUME NEW t \in Threads,
               \/ Begin(t) \/ Commit(t) \/ Lock(t) \/ Put(t) \/ Restage(t)
               \/ \E r \in {"idle", "gone"} : CallFlush(t, r)
        PROVE  [Abstract!Next]_Abstract!vars
    BY <2>3, ControlUnseen, PutUnseen, RestageUnseen
  <2>4. CASE MoveAssign
    BY <2>4, InitOpens DEF Abstract!Next
  <2>5. CASE UNCHANGED vars
    BY <2>5, SameStaged, SameLog, SameCalls, Unseen DEF vars, GoneOf
  <2> QED BY StepCases, <2>1, <2>2, <2>3, <2>4, <2>5
<1> QED BY <1>1, <1>2, SinkCorrect, PTL DEF Spec, ImplementsCallLog, Abstract!Spec
=============================================================================
