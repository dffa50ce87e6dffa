------------------------------- MODULE Threads -------------------------------
(***************************************************************************)
(* The thread records (osCreateThread, osStartThread, osStopThread) and    *)
(* the loop that runs started threads, one after the other and to their    *)
(* end, on the host's only thread:                                         *)
(* goldeneye_runtime_dispatch_started_threads in libultra_stubs.cpp.       *)
(*                                                                         *)
(* The loop holds references into the vector of records while the thread   *)
(* it runs may append to that vector.  An append that makes the vector     *)
(* grow frees the storage the loop walks (libstdc++ doubles the capacity). *)
(***************************************************************************)
EXTENDS Integers, Sequences, FiniteSets

CONSTANTS
    Thread,          \* addresses of OSThread structures the game uses
    HostThread,      \* the one the host's self test creates
    Id,              \* thread ids
    HostId,          \* id 1, of the self test's thread
    AnyId,           \* a negative only_thread_id
    Modes,           \* the arguments of the loop: only, the id it selects or
                     \* AnyId, and max, how many entries it runs at most
    MaxRecords,      \* bound: how many records there are, for each of the Modes
    MaxStarts        \* bound: how many starts, the self test's included

ASSUME ThreadsAssumption ==
    /\ HostId \in Id
    /\ AnyId \notin Id
    /\ Modes \subseteq [only : Id \cup {AnyId}, max : Nat]
    /\ MaxRecords \in [Modes -> Nat \ {0}]
    /\ MaxStarts \in Nat

VARIABLES
    mode,        \* the arguments the loop is called with
    records,     \* g_threads
    capacity,    \* of the vector
    started,     \* threads_started
    dispatched,  \* threads_dispatched
    pc,          \* "boot" before the loop, then "loop", "thread" while a
                 \* thread's entry runs, "wild" after the loop read freed
                 \* storage to decide what to do, "end"
    at,          \* the position the loop looks at
    last,        \* the last position it will look at
    stale,       \* whether the storage the loop walks was freed
    count        \* the loop's own count of the entries it ran

vars == <<mode, records, capacity, started, dispatched, pc, at, last, stale,
          count>>

loop == <<mode, at, last, count>>

Record(t, i, known) ==
    [thread |-> t, id |-> i, known |-> known, started |-> FALSE,
     dispatched |-> FALSE]

(* main's self test has created and started one thread; its entry is the
   game's entry point, which the lookup knows in a probe. *)
Init ==
    /\ mode \in Modes
    /\ records = <<[Record(HostThread, HostId, TRUE) EXCEPT !.started = TRUE]>>
    /\ capacity = 1
    /\ started = 1
    /\ dispatched = 0
    /\ pc = "boot"
    /\ at = 0 /\ last = 0 /\ count = 0
    /\ stale = FALSE

GameRuns == pc \in {"boot", "thread"}

(* The first record of structure t, if there is one. *)
IsFirst(k, t) ==
    /\ k \in 1..Len(records)
    /\ records[k].thread = t
    /\ \A j \in 1..(k - 1) : records[j].thread # t

Absent(t) == \A k \in 1..Len(records) : records[k].thread # t

-----------------------------------------------------------------------------
(* Creating never looks whether the structure already has a record. *)
osCreateThread(t, i, known) ==
    /\ GameRuns
    /\ Len(records) < MaxRecords[mode]
    /\ records' = Append(records, Record(t, i, known))
    /\ IF Len(records) = capacity
       THEN capacity' = 2 * capacity /\ stale' = (stale \/ pc = "thread")
       ELSE UNCHANGED <<capacity, stale>>
    /\ UNCHANGED <<started, dispatched, pc, loop>>

osStartThread(t) ==
    /\ GameRuns
    /\ started < MaxStarts
    /\ started' = started + 1
    /\ \/ \E k \in 1..Len(records) :
             IsFirst(k, t) /\ records' = [records EXCEPT ![k].started = TRUE]
       \/ Absent(t) /\ UNCHANGED records
    /\ UNCHANGED <<capacity, dispatched, pc, stale, loop>>

(* A wrong form: a stopped thread may be dispatched once more. *)
StopForgets(t) ==
    /\ GameRuns
    /\ \E k \in 1..Len(records) :
          /\ IsFirst(k, t)
          /\ records' = [records EXCEPT ![k].started = FALSE,
                                         ![k].dispatched = FALSE]
    /\ UNCHANGED <<capacity, started, dispatched, pc, stale, loop>>

osStopThread(t) ==
    /\ GameRuns
    /\ \E k \in 1..Len(records) :
          IsFirst(k, t) /\ records' = [records EXCEPT ![k].started = FALSE]
    /\ UNCHANGED <<capacity, started, dispatched, pc, stale, loop>>

-----------------------------------------------------------------------------
(* The entry point returned to main, which starts the loop. *)
EnterLoop ==
    /\ pc = "boot"
    /\ pc' = "loop"
    /\ at' = 1
    /\ last' = Len(records)
    /\ UNCHANGED <<mode, records, capacity, started, dispatched, stale, count>>

LoopEnds ==
    /\ pc = "loop"
    /\ at > last \/ count >= mode.max
    /\ pc' = "end"
    /\ UNCHANGED <<records, capacity, started, dispatched, stale, loop>>

(* A wrong form: one entry more than allowed. *)
LookingPastLimit == pc = "loop" /\ at <= last /\ count <= mode.max

Looking == pc = "loop" /\ at <= last /\ count < mode.max

Selected(r) ==
    /\ r.started /\ ~r.dispatched
    /\ mode.only # AnyId => r.id = mode.only
    /\ r.known

(* A wrong form: a record that is passed over is looked at again. *)
SkipInPlace ==
    /\ Looking /\ ~stale
    /\ ~Selected(records[at])
    /\ UNCHANGED vars

(* A record that is not started, was dispatched, has another id or an
   entry the lookup does not know. *)
Skip ==
    /\ Looking /\ ~stale
    /\ ~Selected(records[at])
    /\ at' = at + 1
    /\ UNCHANGED <<mode, records, capacity, started, dispatched, pc, last, stale,
                   count>>

Dispatch ==
    /\ Looking /\ ~stale
    /\ Selected(records[at])
    /\ records' = [records EXCEPT ![at].dispatched = TRUE]
    /\ dispatched' = dispatched + 1
    /\ pc' = "thread"
    /\ UNCHANGED <<capacity, started, stale, loop>>

(* A wrong form: the loop does not count the entry. *)
ReturnsUncounted ==
    /\ pc = "thread"
    /\ pc' = "loop"
    /\ at' = at + 1
    /\ UNCHANGED <<mode, records, capacity, started, dispatched, last, stale,
                   count>>

ThreadReturns ==
    /\ pc = "thread"
    /\ pc' = "loop"
    /\ count' = count + 1
    /\ at' = at + 1
    /\ UNCHANGED <<mode, records, capacity, started, dispatched, last, stale>>

(* The loop reads a record from freed storage: whatever it finds there, it
   may run. *)
ReadFreed ==
    /\ Looking /\ stale
    /\ pc' = "wild"
    /\ UNCHANGED <<records, capacity, started, dispatched, stale, loop>>

Next ==
    \/ \E t \in Thread, i \in Id, known \in BOOLEAN : osCreateThread(t, i, known)
    \/ \E t \in Thread \cup {HostThread} : osStartThread(t) \/ osStopThread(t)
    \/ EnterLoop \/ LoopEnds \/ Skip \/ Dispatch \/ ThreadReturns \/ ReadFreed

(* The loop itself never waits; a thread may run for ever. *)
Spec == Init /\ [][Next]_vars /\ WF_vars(LoopEnds \/ Skip \/ Dispatch)

-----------------------------------------------------------------------------
TypeOK ==
    /\ mode \in Modes
    /\ records \in Seq([thread : Thread \cup {HostThread}, id : Id,
                        known : BOOLEAN, started : BOOLEAN,
                        dispatched : BOOLEAN])
    /\ Len(records) \in 1..MaxRecords[mode]
    /\ capacity \in Nat /\ Len(records) <= capacity
    /\ started \in Nat /\ dispatched \in Nat /\ count \in Nat
    /\ pc \in {"boot", "loop", "thread", "wild", "end"}
    /\ at \in Nat /\ last \in 0..Len(records)
    /\ stale \in BOOLEAN

Dispatched == {k \in 1..Len(records) : records[k].dispatched}

(* The three counts of entries run agree: the flags of the records, the
   diagnostics and the loop's own count, which lags by the thread that is
   running; and only records the caller selected ran. *)
DispatchesAgree ==
    /\ TypeOK
    /\ Cardinality(Dispatched) = dispatched
    /\ dispatched = count + (IF pc = "thread" THEN 1 ELSE 0)
    /\ dispatched <= mode.max
    /\ \A k \in Dispatched : records[k].known
                             /\ (mode.only # AnyId => records[k].id = mode.only)

(* A loop that runs one entry at most, as the probe's does, never decides by
   a record it reads from freed storage, although the thread it runs may make
   the vector grow. *)
NeverReadsFreed == mode.max <= 1 => pc # "wild"

(* No thread's entry is run twice, also when it is stopped and started
   again: what was dispatched stays so. *)
DispatchOnce ==
    [][ \A k \in 1..Len(records) : records[k].dispatched =>
            records'[k].dispatched ]_vars

(* A loop that runs one entry at most comes to its end unless the thread it
   runs never returns. *)
LoopFinishes ==
    (mode.max <= 1 /\ pc = "loop") ~> (pc \in {"thread", "end"})
=============================================================================
