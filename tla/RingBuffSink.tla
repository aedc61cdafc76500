---------------------------- MODULE RingBuffSink ----------------------------
(***************************************************************************)
(* RingBuffSink (bilog/include/bilog/sink/ringbuff.hpp): several threads   *)
(* stage a line each in their Buffer and flush it into a shared ring that  *)
(* one consumer drains.  Every access to head_ and tail_ and every byte    *)
(* copied is a step of its own.                                            *)
(*                                                                         *)
(* A byte is named by the position head_ gave it, so a cell that holds     *)
(* position a holds the byte of the flush that reserved a.  Differences of *)
(* the two indices wrap as size_t does, at Word.  head_ itself stays below *)
(* Word.                                                                   *)
(*                                                                         *)
(* Any line may meet any ring: nothing relates the 512 bytes of a staging  *)
(* buffer to the size of the ring, which may even be empty.  A copy that   *)
(* leaves the ring spoils memory that is not the sink's and that the model *)
(* does not have; what the program does after that is not described.       *)
(***************************************************************************)
EXTENDS Integers, Sequences

CONSTANTS
    Producers,
    NoByte,     \* a cell never written
    Size,       \* ring_.size()
    LineCap,    \* kBuffCap: the capacity of the staging buffers
    Word,       \* 2^w for the w bits of size_t
    MaxCall,    \* bound: the bytes of one write call
    MaxRead,    \* bound: the size passed to read()
    MaxTotal    \* bound: the bytes flushed into one ring

ASSUME SizeAssumption == Size \in Nat /\ LineCap \in Nat \ {0}
ASSUME WordAssumption == Word \in Nat /\ MaxTotal \in Nat /\ MaxTotal < Word
                         /\ Size < Word
ASSUME BoundsAssumption == MaxCall \in Nat \ {0} /\ MaxRead \in Nat
ASSUME NoByteAssumption == NoByte \notin Nat

VARIABLES
    ring, head, tail,
    staged,                      \* cursor of each producer's Buffer
    pc, start, copied, seen,     \* flush: its locals, seen is its `tail'
    rpc, rh, rt, want, out,      \* read: its locals h, t, to_read and out
    count                        \* what available() returned

shared == <<ring, head, tail>>
flushing == <<pc, start, copied, seen>>
reading == <<rpc, rh, rt, want, out, count>>
vars == <<shared, staged, flushing, reading>>

Least(a, b) == IF a < b THEN a ELSE b

(* Mutant of Cell: the first memcpy one byte too long. *)
CellOffByOne(p) ==
    LET offset == start[p] % Size
        first == Least(staged[p], Size - offset)
    IN IF copied[p] <= first THEN offset + copied[p] ELSE copied[p] - first

(* Where the two memcpys put the byte copied next: first bytes from offset *)
(* on, the others from the beginning.                                      *)
Cell(p) ==
    LET offset == start[p] % Size
        first == Least(staged[p], Size - offset)
    IN IF copied[p] < first THEN offset + copied[p] ELSE copied[p] - first

-----------------------------------------------------------------------------
Blank == [c \in 0..(Size - 1) |-> NoByte]

Init ==
    /\ ring = Blank /\ head = 0 /\ tail = 0
    /\ staged = [p \in Producers |-> 0]
    /\ pc = [p \in Producers |-> "idle"]
    /\ start = [p \in Producers |-> 0]
    /\ copied = [p \in Producers |-> 0]
    /\ seen = [p \in Producers |-> 0]
    /\ rpc = "idle" /\ rh = 0 /\ rt = 0 /\ want = 0 /\ out = <<>> /\ count = 0

(* Mutant of Write: an append that does not check the capacity. *)
WriteUnchecked(p, n) ==
    /\ pc[p] = "idle" /\ staged[p] <= LineCap
    /\ staged' = [staged EXCEPT ![p] = @ + n]
    /\ UNCHANGED <<shared, flushing, reading>>

(* write and write_byte stage what fits; Buffer::append drops the rest. *)
Write(p, n) ==
    /\ pc[p] = "idle"
    /\ staged' = [staged EXCEPT ![p] = Least(@ + n, LineCap)]
    /\ UNCHANGED <<shared, flushing, reading>>

(* Mutant of Reserve: one byte too few. *)
ReserveShort(p) ==
    /\ pc[p] = "idle" /\ staged[p] > 0
    /\ head + staged[p] <= MaxTotal
    /\ start' = [start EXCEPT ![p] = head]
    /\ head' = head + staged[p] - 1
    /\ pc' = [pc EXCEPT ![p] = "copy"]
    /\ UNCHANGED <<ring, tail, staged, copied, seen, reading>>

(* flush, called by commit and by ~Buffer.  With nothing staged, or a ring *)
(* of size 0, it returns at once.                                          *)
Reserve(p) ==
    /\ pc[p] = "idle" /\ staged[p] > 0 /\ Size > 0
    /\ head + staged[p] <= MaxTotal
    /\ start' = [start EXCEPT ![p] = head]
    /\ head' = head + staged[p]
    /\ pc' = [pc EXCEPT ![p] = "copy"]
    /\ UNCHANGED <<ring, tail, staged, copied, seen, reading>>

(* A byte of the two memcpys.  Behind the ring there are other objects. *)
CopyByte(p) ==
    /\ pc[p] = "copy" /\ copied[p] < staged[p]
    /\ ring' = [c \in DOMAIN ring |-> IF c = Cell(p) THEN start[p] + copied[p] ELSE ring[c]]
    /\ copied' = [copied EXCEPT ![p] = @ + 1]
    /\ UNCHANGED <<head, tail, staged, pc, start, seen, reading>>

(* Mutant of LoadTail: a flush that waits for the consumer to make room. *)
LoadTailWhenRoom(p) ==
    /\ pc[p] = "copy" /\ copied[p] = staged[p]
    /\ start[p] + staged[p] - tail <= Size
    /\ seen' = [seen EXCEPT ![p] = tail]
    /\ pc' = [pc EXCEPT ![p] = "store"]
    /\ UNCHANGED <<shared, staged, start, copied, reading>>

LoadTail(p) ==
    /\ pc[p] = "copy" /\ copied[p] = staged[p]
    /\ seen' = [seen EXCEPT ![p] = tail]
    /\ pc' = [pc EXCEPT ![p] = "store"]
    /\ UNCHANGED <<shared, staged, start, copied, reading>>

(* Mutant of Overwrote: one byte too late. *)
OverwroteLate(p) == (start[p] + staged[p] - seen[p]) % Word > Size + 1
Overwrote(p) == (start[p] + staged[p] - seen[p]) % Word > Size

(* Mutant of StoreTail: drops the whole ring, not only what was overwritten. *)
StoreTailAtEnd(p) ==
    /\ pc[p] = "store"
    /\ tail' = IF Overwrote(p) THEN (start[p] + staged[p]) % Word ELSE tail
    /\ staged' = [staged EXCEPT ![p] = 0]
    /\ pc' = [pc EXCEPT ![p] = "idle"]
    /\ start' = [start EXCEPT ![p] = 0]
    /\ copied' = [copied EXCEPT ![p] = 0]
    /\ seen' = [seen EXCEPT ![p] = 0]
    /\ UNCHANGED <<ring, head, reading>>

StoreTail(p) ==
    /\ pc[p] = "store"
    /\ tail' = IF Overwrote(p) THEN (start[p] + staged[p] - Size) % Word ELSE tail
    /\ staged' = [staged EXCEPT ![p] = 0]
    /\ pc' = [pc EXCEPT ![p] = "idle"]
    /\ start' = [start EXCEPT ![p] = 0]
    /\ copied' = [copied EXCEPT ![p] = 0]
    /\ seen' = [seen EXCEPT ![p] = 0]
    /\ UNCHANGED <<ring, head, reading>>

Flush(p) == CopyByte(p) \/ LoadTail(p) \/ StoreTail(p)

(* read(out, size) *)
ReadHead(size) ==
    /\ rpc = "idle"
    /\ rpc' = "tail" /\ rh' = head /\ want' = size /\ count' = 0
    /\ UNCHANGED <<shared, staged, flushing, rt, out>>

(* Mutants of ReadTail: not limited to what is available, and waiting for   *)
(* data.                                                                    *)
ReadTailUnlimited ==
    /\ rpc = "tail"
    /\ rt' = tail
    /\ out' = <<>>
    /\ rpc' = "copy"
    /\ UNCHANGED <<shared, staged, flushing, rh, want, count>>
ReadTailBlocking ==
    /\ rpc = "tail" /\ rh # tail
    /\ rt' = tail
    /\ want' = Least((rh - tail) % Word, want)
    /\ out' = <<>>
    /\ rpc' = "copy"
    /\ UNCHANGED <<shared, staged, flushing, rh, count>>

ReadTail ==
    /\ rpc = "tail"
    /\ rt' = tail
    /\ want' = Least((rh - tail) % Word, want)
    /\ out' = <<>>
    /\ rpc' = "copy"
    /\ UNCHANGED <<shared, staged, flushing, rh, count>>

ReadByte ==
    /\ rpc = "copy" /\ Len(out) < want
    /\ out' = Append(out, ring[((rt + Len(out)) % Word) % Size])
    /\ UNCHANGED <<shared, staged, flushing, rpc, rh, rt, want, count>>

(* Mutant of ReadDone: tail_ is not advanced. *)
ReadDonePeek ==
    /\ rpc = "copy" /\ Len(out) = want
    /\ rpc' = "idle" /\ rh' = 0 /\ want' = 0
    /\ UNCHANGED <<shared, staged, flushing, rt, out, count>>

ReadDone ==
    /\ rpc = "copy" /\ Len(out) = want
    /\ tail' = (rt + want) % Word
    /\ rpc' = "idle" /\ rh' = 0 /\ want' = 0
    /\ UNCHANGED <<ring, head, staged, flushing, rt, out, count>>

(* clear() loads head_ and then stores it; available() loads both. *)
LoadHead(call) ==
    /\ rpc = "idle"
    /\ rpc' = call /\ rh' = head /\ count' = 0
    /\ UNCHANGED <<shared, staged, flushing, rt, want, out>>

ClearStore ==
    /\ rpc = "clear"
    /\ tail' = rh
    /\ rpc' = "idle" /\ rh' = 0
    /\ UNCHANGED <<ring, head, staged, flushing, rt, want, out, count>>

(* Mutant of Available: the difference the other way round. *)
AvailableSwapped ==
    /\ rpc = "available"
    /\ count' = (tail - rh) % Word
    /\ rpc' = "idle" /\ rh' = 0
    /\ UNCHANGED <<shared, staged, flushing, rt, want, out>>

Available ==
    /\ rpc = "available"
    /\ count' = (rh - tail) % Word
    /\ rpc' = "idle" /\ rh' = 0
    /\ UNCHANGED <<shared, staged, flushing, rt, want, out>>

Reading == ReadTail \/ ReadByte \/ ReadDone \/ ClearStore \/ Available

Quiet == \A p \in Producers : pc[p] = "idle"

(* init() move-assigns a new ring, of the same size and not yet written to. *)
(* Nothing is synchronised, so no call may be running.  A producer's staged *)
(* bytes stay and go to the new ring.                                       *)
MoveAssign ==
    /\ Quiet /\ rpc = "idle"
    /\ ring' = Blank /\ head' = 0 /\ tail' = 0
    /\ rt' = 0 /\ out' = <<>> /\ count' = 0
    /\ UNCHANGED <<staged, flushing, rpc, rh, want>>

Producer(p) == (\E n \in 1..MaxCall : Write(p, n)) \/ Reserve(p) \/ Flush(p)
Consumer == \/ \E size \in 0..MaxRead : ReadHead(size)
            \/ LoadHead("clear") \/ LoadHead("available") \/ Reading

Next == (\E p \in Producers : Producer(p)) \/ Consumer \/ MoveAssign
Spec == Init /\ [][Next]_vars

(* Each thread keeps running inside a call; nothing is assumed of the others. *)
FairSpec == /\ Spec
            /\ \A p \in Producers : WF_vars(Flush(p))
            /\ WF_vars(Reading)

(* The consumer's calls never overlap a flush, as when it runs after the    *)
(* producers have been joined.                                              *)
QuietNext == Next /\ (rpc' # "idle" => \A p \in Producers : pc'[p] = "idle")

(* Besides, no line reaches past the end of the ring twice; a flush that    *)
(* overwrites unread bytes runs alone; flushes that overlap fit in the ring *)
(* together.                                                                *)
Alone(p) == \A q \in Producers \ {p} : pc[q] = "idle"
Roomy == \A p \in Producers : Reserve(p) =>
             /\ (head % Size) + staged[p] <= 2 * Size
             /\ Alone(p) \/ head + staged[p] - tail <= Size
TamedSpec == Init /\ [][QuietNext /\ Roomy]_vars

-----------------------------------------------------------------------------
Bytes == Nat \cup {NoByte}
Words == 0..(Word - 1)

TypeOK ==
    /\ ring \in [0..(Size - 1) -> Bytes]
    /\ head \in 0..MaxTotal
    /\ tail \in Words
    /\ staged \in [Producers -> 0..LineCap]
    /\ pc \in [Producers -> {"idle", "copy", "store"}]
    /\ start \in [Producers -> 0..MaxTotal]
    /\ copied \in [Producers -> 0..LineCap]
    /\ seen \in [Producers -> Words]
    /\ rpc \in {"idle", "tail", "copy", "clear", "available"}
    /\ rh \in 0..MaxTotal
    /\ rt \in Words
    /\ want \in 0..MaxRead
    /\ out \in Seq(Bytes)
    /\ count \in Words

Flushing(p) == pc[p] # "idle"
Reserved(p) == start[p] .. (start[p] + staged[p] - 1)

(* fetch_add hands every flush a range of its own below head_, so no two   *)
(* lines share a position, however the producers interleave.               *)
ReservationsDisjoint == \A p \in Producers : Flushing(p) =>
    /\ start[p] + staged[p] <= head
    /\ \A q \in Producers \ {p} : Flushing(q) => Reserved(p) \cap Reserved(q) = {}

(* The byte at position a lands in the cell from which read() takes        *)
(* position a, whatever the offset, the wrap and the number of laps, a     *)
(* line longer than the ring included; but what reaches past the end of    *)
(* the ring for a second time lands outside of it (ringbuff.hpp:67-72).    *)
CopiesInPlace == \A p \in Producers : pc[p] = "copy" /\ copied[p] < staged[p] =>
    IF (start[p] % Size) + copied[p] < 2 * Size
    THEN Cell(p) = (start[p] + copied[p]) % Size
    ELSE Cell(p) \notin DOMAIN ring

(* architecture.md:75, "Fixed size, oldest data overwritten when full",    *)
(* and ringbuff_test.cpp:55, "12 chars, buffer is 8": a line longer than   *)
(* the ring overwrites what is in the ring, and nothing else.              *)
CopyInBounds == \A p \in Producers :
    pc[p] = "copy" /\ copied[p] < staged[p] => Cell(p) \in DOMAIN ring

(* A flush needs nobody else: it completes although the other producers    *)
(* and the consumer stop anywhere; so does a call of the consumer.         *)
FlushCompletes == \A p \in Producers : Flushing(p) ~> ~Flushing(p)
CallCompletes == rpc # "idle" ~> rpc = "idle"

Window == (head - tail) % Word

(* architecture.md:75, "Fixed size, oldest data overwritten when full".    *)
(* Between flushes the unread window is no larger than the ring and every  *)
(* position in it is in its cell.                                          *)
WindowIntact == Quiet =>
    /\ tail <= head /\ Window <= Size
    /\ \A a \in tail..(head - 1) : ring[a % Size] = a

(* What is lost is only ever the oldest: a tail_ that moves past unread    *)
(* bytes, except in clear() and init(), leaves a full ring behind it.      *)
OnlyOldestLost == [][
    (\E p \in Producers : StoreTail(p)) /\ tail' # tail => head - tail' = Size
    ]_vars

(* read() returns the bytes of the window in order, none of them a second  *)
(* time, and no byte before its flush is complete.                         *)
ReadsWindow == rpc = "copy" =>
    \A i \in DOMAIN out : out[i] = rt + i - 1 /\ out[i] < head

ReadsAdvance == [][ReadTail => rt' >= rt + Len(out)]_vars

(* What available() returns is never more than the ring holds              *)
(* (ringbuff_test.cpp:58 expects 8 from an overfull ring of 8).            *)
AvailableBounded == count <= Size

(* ringbuff.hpp:16, "the entire line is committed atomically": read()      *)
(* returns no byte of a line whose flush is still copying it, and so never *)
(* what the cell held before.                                              *)
ReadsCommitted == \A i \in DOMAIN out : rpc = "copy" => out[i] # NoByte
=============================================================================
