------------------------------ MODULE FileSink ------------------------------
(***************************************************************************)
(* FileSink and the thread-local Buffer it stages into                     *)
(* (bilog/include/bilog/sink/{buffer,file}.hpp, bilog/src/sink/file.cpp),  *)
(* driven as Logger and Event drive it: bilog::log() opens a record, the   *)
(* encoder makes several write calls for it, EventWriter::write() commits  *)
(* it, and the buffer is destroyed with its thread.                        *)
(*                                                                         *)
(* A byte is named by its thread and its position in everything the thread *)
(* ever wrote.  `made' is a history variable: for each position the first  *)
(* position of the write call and of the record that produced it.          *)
(***************************************************************************)
EXTENDS Integers, Sequences

CONSTANTS
    Threads,    \* the threads that log
    NoThread,   \* the value of a free mutex
    Cap,        \* kBuffCap
    MaxCall,    \* bound: the bytes of one write call
    FirstFile,  \* the file open at construction: 0 by the default
                \* constructor, 1 by the two that take a path or a stream
    MaxBytes,   \* bound: the bytes each thread writes in its life
    MaxOpens    \* bound: the last file init() installs

ASSUME CapAssumption == Cap \in Nat \ {0}
ASSUME BoundsAssumption ==
    MaxCall \in Nat \ {0} /\ MaxBytes \in [Threads -> Nat] /\ MaxOpens \in Nat
ASSUME ConstructorAssumption == FirstFile \in {0, 1}
ASSUME ThreadAssumption == NoThread \notin Threads

VARIABLES
    pc,      \* where each thread is
    after,   \* where its flush() returns to
    buff,    \* its Buffer, as positions; the cursor is the length
    arg,     \* the data of a write call that did not fit in the Buffer
    mutex,   \* file_mutex_: its owner, or NoThread
    put,     \* how many bytes the running ofstream::write has transferred
    out,     \* every byte handed to file_, with the file it went to
    sink,    \* the file open in file_; 0 is the default-constructed stream
    made,    \* history: the bytes each thread wrote
    rec      \* history: the first position of each thread's current record

vars == <<pc, after, buff, arg, mutex, put, out, sink, made, rec>>

Writing == {"staged", "oversize"}      \* inside the lock_guard's scope
Control == {"idle", "record", "flush", "append", "direct", "gone"} \cup Writing
Returns == {"idle", "append", "direct", "gone"}

(* The bytes the running file_.write of t is given. *)
Source(t) == IF pc[t] = "oversize" THEN arg[t] ELSE buff[t]

(* Buffer::append(data, size): keeps what fits. *)
Appended(b, data) ==
    IF Len(b) + Len(data) > Cap THEN b \o SubSeq(data, 1, Cap - Len(b))
                                ELSE b \o data

(* Mutant of Fits: one byte too many. *)
FitsLoosely(t, n) == Len(buff[t]) + n <= Cap + 1

Fits(t, n) == Len(buff[t]) + n <= Cap

-----------------------------------------------------------------------------
Init ==
    /\ pc = [t \in Threads |-> "idle"]
    /\ after = [t \in Threads |-> "idle"]
    /\ buff = [t \in Threads |-> <<>>]
    /\ arg = [t \in Threads |-> <<>>]
    /\ mutex = NoThread
    /\ put = [t \in Threads |-> 0]
    /\ out = <<>>
    /\ sink = FirstFile
    /\ made = [t \in Threads |-> <<>>]
    /\ rec = [t \in Threads |-> 1]

(* Logger::log followed by a level method: a record begins. *)
Begin(t) ==
    /\ pc[t] = "idle"
    /\ pc' = [pc EXCEPT ![t] = "record"]
    /\ rec' = [rec EXCEPT ![t] = Len(made[t]) + 1]
    /\ UNCHANGED <<after, buff, arg, mutex, put, out, sink, made>>

(* The encoder hands over a call of n bytes. *)
Data(t, n) == [i \in 1..n |-> Len(made[t]) + i]

Produce(t, n) ==
    /\ pc[t] = "record"
    /\ Len(made[t]) + n <= MaxBytes[t]
    /\ made' = [made EXCEPT ![t] = @ \o
           [i \in 1..n |-> [call |-> Len(@) + 1, rec |-> rec[t]]]]
    /\ UNCHANGED <<mutex, put, out, sink, rec>>

(* FileSink::write and write_byte when the data fit: append_unsafe. *)
WriteFast(t, n) ==
    /\ Fits(t, n)
    /\ Produce(t, n)
    /\ buff' = [buff EXCEPT ![t] = @ \o Data(t, n)]
    /\ UNCHANGED <<pc, after, arg>>

(* Mutant of WriteFile: an oversize call is written without flushing first. *)
WriteFileUnflushed(t, n) ==
    /\ ~Fits(t, n)
    /\ Produce(t, n)
    /\ arg' = [arg EXCEPT ![t] = Data(t, n)]
    /\ pc' = [pc EXCEPT ![t] = IF n > Cap THEN "direct" ELSE "flush"]
    /\ after' = [after EXCEPT ![t] = IF n > Cap THEN @ ELSE "append"]
    /\ UNCHANGED buff

(* ... and when they do not: write_file, whose two branches both begin     *)
(* with flush.                                                             *)
WriteFile(t, n) ==
    /\ ~Fits(t, n)
    /\ Produce(t, n)
    /\ arg' = [arg EXCEPT ![t] = Data(t, n)]
    /\ pc' = [pc EXCEPT ![t] = "flush"]
    /\ after' = [after EXCEPT ![t] = IF n > Cap THEN "direct" ELSE "append"]
    /\ UNCHANGED buff

(* FileSink::commit does nothing: the record stays staged. *)
Commit(t) ==
    /\ pc[t] = "record"
    /\ pc' = [pc EXCEPT ![t] = "idle"]
    /\ UNCHANGED <<after, buff, arg, mutex, put, out, sink, made, rec>>

(* Mutant of CallFlush: the destructor frees the buffer without a flush. *)
CallFlushNotAtExit(t, return) ==
    /\ pc[t] = "idle"
    /\ pc' = [pc EXCEPT ![t] = IF return = "gone" THEN "gone" ELSE "flush"]
    /\ after' = [after EXCEPT ![t] = IF return = "gone" THEN @ ELSE return]
    /\ UNCHANGED <<buff, arg, mutex, put, out, sink, made, rec>>

(* flush() called by the owner of the buffer, and by ~Buffer at thread exit. *)
CallFlush(t, return) ==
    /\ pc[t] = "idle"
    /\ pc' = [pc EXCEPT ![t] = "flush"]
    /\ after' = [after EXCEPT ![t] = return]
    /\ UNCHANGED <<buff, arg, mutex, put, out, sink, made, rec>>

Return(t) ==
    /\ pc' = [pc EXCEPT ![t] = after[t]]
    /\ after' = [after EXCEPT ![t] = "idle"]

(* Mutant of FlushEmpty: a flush waits until there is something to write. *)
FlushEmptyWaits(t) == pc[t] = "flush" /\ buff[t] = <<>> /\ UNCHANGED vars

FlushEmpty(t) ==
    /\ pc[t] = "flush" /\ buff[t] = <<>>
    /\ Return(t)
    /\ UNCHANGED <<buff, arg, mutex, put, out, sink, made, rec>>

(* Mutant of Lock: the mutex is not waited for. *)
LockFree(t) ==
    /\ \/ pc[t] = "flush" /\ buff[t] # <<>>
          /\ pc' = [pc EXCEPT ![t] = "staged"]
       \/ pc[t] = "direct"
          /\ pc' = [pc EXCEPT ![t] = "oversize"]
    /\ mutex' = t
    /\ UNCHANGED <<after, buff, arg, put, out, sink, made, rec>>

(* The lock_guard of flush, and the one around the direct write. *)
Lock(t) ==
    /\ mutex = NoThread
    /\ \/ pc[t] = "flush" /\ buff[t] # <<>>
          /\ pc' = [pc EXCEPT ![t] = "staged"]
       \/ pc[t] = "direct"
          /\ pc' = [pc EXCEPT ![t] = "oversize"]
    /\ mutex' = t
    /\ UNCHANGED <<after, buff, arg, put, out, sink, made, rec>>

(* file_.write transfers one more byte of its source. *)
Put(t) ==
    /\ pc[t] \in Writing
    /\ put[t] < Len(Source(t))
    /\ out' = Append(out, [thr |-> t, pos |-> Source(t)[put[t] + 1], to |-> sink])
    /\ put' = [put EXCEPT ![t] = @ + 1]
    /\ UNCHANGED <<pc, after, buff, arg, mutex, sink, made, rec>>

(* Mutant of Release: accounts for a full buffer whatever was written. *)
ReleaseFull(t) ==
    /\ put[t] = Len(Source(t))
    /\ put' = [put EXCEPT ![t] = @ - Cap]
    /\ mutex' = NoThread
    /\ UNCHANGED <<out, sink, made, rec>>

(* file_.write is done and the lock released.  After a staged write flush  *)
(* clears the buffer, which only its own thread can see, and returns.      *)
Release(t) ==
    /\ put[t] = Len(Source(t))
    /\ put' = [put EXCEPT ![t] = 0]
    /\ mutex' = NoThread
    /\ UNCHANGED <<out, sink, made, rec>>

FlushDone(t) ==
    /\ pc[t] = "staged"
    /\ Release(t)
    /\ buff' = [buff EXCEPT ![t] = <<>>]
    /\ Return(t)
    /\ UNCHANGED arg

DirectDone(t) ==
    /\ pc[t] = "oversize"
    /\ Release(t)
    /\ arg' = [arg EXCEPT ![t] = <<>>]
    /\ pc' = [pc EXCEPT ![t] = "record"]
    /\ UNCHANGED <<after, buff>>

(* Mutant of Restage: a call as long as the buffer is flushed for again. *)
RestageOrFlush(t) ==
    /\ pc[t] = "append"
    /\ IF Len(buff[t]) + Len(arg[t]) < Cap
       THEN /\ buff' = [buff EXCEPT ![t] = Appended(@, arg[t])]
            /\ arg' = [arg EXCEPT ![t] = <<>>]
            /\ pc' = [pc EXCEPT ![t] = "record"]
            /\ UNCHANGED after
       ELSE /\ pc' = [pc EXCEPT ![t] = "flush"]
            /\ after' = [after EXCEPT ![t] = "append"]
            /\ UNCHANGED <<buff, arg>>
    /\ UNCHANGED <<mutex, put, out, sink, made, rec>>

(* write_file's second branch: the data go to the flushed buffer. *)
Restage(t) ==
    /\ pc[t] = "append"
    /\ buff' = [buff EXCEPT ![t] = Appended(@, arg[t])]
    /\ arg' = [arg EXCEPT ![t] = <<>>]
    /\ pc' = [pc EXCEPT ![t] = "record"]
    /\ UNCHANGED <<after, mutex, put, out, sink, made, rec>>

(* bilog::init move-assigns a sink with a newly opened file.  The          *)
(* assignment takes no lock; an init() that overlaps a file write is a     *)
(* data race and is left out.                                              *)
MoveAssign ==
    /\ mutex = NoThread
    /\ sink < MaxOpens
    /\ sink' = sink + 1
    /\ UNCHANGED <<pc, after, buff, arg, mutex, put, out, made, rec>>

(* The steps a thread takes inside bilog, once it has called it. *)
InCall(t) == FlushEmpty(t) \/ Lock(t) \/ Put(t) \/ FlushDone(t) \/ DirectDone(t)
             \/ Restage(t)

(* The steps a thread takes of its own accord. *)
OwnStep(t) == \/ Begin(t)
              \/ \E n \in 1..MaxCall : WriteFast(t, n) \/ WriteFile(t, n)
              \/ Commit(t)
              \/ CallFlush(t, "idle")
              \/ CallFlush(t, "gone")

(* Every thread has exited: nothing more happens. *)
Finished ==
    /\ \A t \in Threads : pc[t] = "gone"
    /\ UNCHANGED vars

Next == (\E t \in Threads : InCall(t) \/ OwnStep(t)) \/ MoveAssign \/ Finished

Spec == Init /\ [][Next]_vars

(* The scheduler runs every thread that is inside a call; when, or          *)
(* whether, the program makes another call is its own affair.               *)
FairSpec == Spec /\ \A t \in Threads : WF_vars(InCall(t))

-----------------------------------------------------------------------------
Entries == [thr : Threads, pos : Nat, to : Nat]
Origins == [call : Nat, rec : Nat]

TypeOK ==
    /\ pc \in [Threads -> Control]
    /\ after \in [Threads -> Returns]
    /\ buff \in [Threads -> Seq(Nat)]
    /\ arg \in [Threads -> Seq(Nat)]
    /\ mutex \in Threads \cup {NoThread}
    /\ put \in [Threads -> Nat]
    /\ out \in Seq(Entries)
    /\ sink \in Nat
    /\ made \in [Threads -> Seq(Origins)]
    /\ rec \in [Threads -> Nat]

(* What t has written and file_ has not received: its buffer less what the *)
(* running transfer has taken, then the call that waits for the flush.     *)
Staged(t) == buff[t] \o arg[t]
Waiting(t) == SubSeq(Staged(t), put[t] + 1, Len(Staged(t)))

Origin(e) == made[e.thr][e.pos]

(* The cursor stays within the kBuffCap bytes of the allocation on every   *)
(* path: append_unsafe checks nothing, so its callers must.                *)
StagingFits == \A t \in Threads : Len(buff[t]) <= Cap

(* Whatever the calls, their sizes and the interleaving of the threads,    *)
(* each thread's bytes reach the file once, in the order it wrote them,    *)
(* without a gap, and the rest is still staged: no flush, oversize write   *)
(* or restaging loses, repeats or overtakes a byte.                        *)
StreamIntact == \A t \in Threads :
    LET landed == Len(made[t]) - Len(Waiting(t))
        mine == {i \in DOMAIN out : out[i].thr = t}
    IN  /\ {out[i].pos : i \in mine} = 1..landed
        /\ \A i, j \in mine : i < j => out[i].pos < out[j].pos
        /\ \A k \in DOMAIN Waiting(t) : Waiting(t)[k] = landed + k

(* file.hpp:17, "Multiple threads can share one FileSink safely": the      *)
(* bytes of one write call are adjacent in the file, whatever the other    *)
(* threads do while it is transferred.                                     *)
CallsContiguous == \A i, j \in DOMAIN out :
    \A k \in i..j :
        out[i].thr = out[j].thr /\ Origin(out[i]).call = Origin(out[j]).call
        => out[k].thr = out[i].thr

(* What the same claim would mean for records, the unit a reader of the    *)
(* log sees: the bytes of one record are adjacent in the file.             *)
RecordsContiguous == \A i, j \in DOMAIN out :
    \A k \in i..j :
        out[i].thr = out[j].thr /\ Origin(out[i]).rec = Origin(out[j]).rec
        => out[k].thr = out[i].thr

(* A thread that has exited left nothing behind in its buffer. *)
ExitDrains == \A t \in Threads : pc[t] = "gone" => Waiting(t) = <<>>

(* Every call of a thread returns, so no lock is held for ever, and a      *)
(* thread that exits hands its last byte to the file.                      *)
CallsReturn == \A t \in Threads :
    pc[t] \in {"flush", "append", "direct"} ~> pc[t] \in {"idle", "record", "gone"}

ExitCompletes == \A t \in Threads :
    after[t] = "gone" ~> pc[t] = "gone" /\ Waiting(t) = <<>>

-----------------------------------------------------------------------------
(* FileSink implements CallLog: the transfer under the lock is one atomic  *)
(* publication, which takes effect when the lock is released.              *)
InFlight == IF mutex = NoThread THEN 0 ELSE put[mutex]

Abstract == INSTANCE CallLog WITH
    pending <- [t \in Threads |-> Staged(t)],
    log <- SubSeq(out, 1, Len(out) - InFlight),
    file <- sink,
    calls <- [t \in Threads |-> [p \in DOMAIN made[t] |-> made[t][p].call]],
    gone <- {t \in Threads : pc[t] = "gone"}

ImplementsCallLog == Abstract!Spec
=============================================================================
