------------------------------ MODULE CallLog -------------------------------
(***************************************************************************)
(* What a sink shared by several threads promises of their write calls:    *)
(* a log that grows by whole calls, each thread's in the order it made     *)
(* them.  When a call is published is the sink's choice, but a thread      *)
(* cannot leave before its last one is.  Records are not mentioned: the    *)
(* sink is not told where one ends.                                        *)
(***************************************************************************)
EXTENDS Integers, Sequences

CONSTANTS Threads, MaxCall, MaxBytes, FirstFile, MaxOpens

VARIABLES
    pending,   \* each thread's unpublished bytes, as positions
    log,       \* the published bytes, with the file each went to
    file,      \* the file open now
    calls,     \* for each byte of a thread, the first position of its call
    gone       \* the threads that have left

vars == <<pending, log, file, calls, gone>>

Init ==
    /\ pending = [t \in Threads |-> <<>>]
    /\ log = <<>>
    /\ file = FirstFile
    /\ calls = [t \in Threads |-> <<>>]
    /\ gone = {}

(* t makes a call of n bytes. *)
Call(t, n) ==
    /\ t \notin gone
    /\ Len(calls[t]) + n <= MaxBytes[t]
    /\ calls' = [calls EXCEPT ![t] = @ \o [i \in 1..n |-> Len(@) + 1]]
    /\ pending' = [pending EXCEPT ![t] = @ \o [i \in 1..n |-> Len(calls[t]) + i]]
    /\ UNCHANGED <<log, file, gone>>

(* The first n pending bytes of t end at the end of a call. *)
WholeCalls(t, n) ==
    \/ n = Len(pending[t])
    \/ calls[t][pending[t][n]] # calls[t][pending[t][n + 1]]

(* The log with the first n pending bytes of t added, to the open file. *)
Published(t, n) ==
    log \o [i \in 1..n |-> [thr |-> t, pos |-> pending[t][i], to |-> file]]

(* Some of t's calls, the oldest first, are published in one step. *)
Publish(t, n) ==
    /\ WholeCalls(t, n)
    /\ log' = Published(t, n)
    /\ pending' = [pending EXCEPT ![t] = SubSeq(@, n + 1, Len(@))]
    /\ UNCHANGED <<file, calls, gone>>

(* Whatever is left of t's calls is published, and t leaves. *)
Leave(t) ==
    /\ log' = Published(t, Len(pending[t]))
    /\ pending' = [pending EXCEPT ![t] = <<>>]
    /\ gone' = gone \cup {t}
    /\ UNCHANGED <<file, calls>>

Open ==
    /\ file < MaxOpens
    /\ file' = file + 1
    /\ UNCHANGED <<pending, log, calls, gone>>

Next ==
    \/ \E t \in Threads :
        \/ \E n \in 1..MaxCall : Call(t, n)
        \/ \E n \in DOMAIN pending[t] : Publish(t, n)
        \/ Leave(t)
    \/ Open

Spec == Init /\ [][Next]_vars
=============================================================================
