----------------------------- MODULE Probe_proofs -----------------------------
(***************************************************************************)
(* Theorems of the guarded probe: of the loop that runs started threads    *)
(* (Threads) and of the child process it runs in (GuardedProbe).           *)
(***************************************************************************)
EXTENDS Threads, GuardedProbe, SequenceTheorems, FiniteSetTheorems, TLAPS

(***************************************************************************)
(* The loop over the thread records.                                       *)
(***************************************************************************)
ThreadRecord ==
    [thread : Thread \cup {HostThread}, id : Id, known : BOOLEAN,
     started : BOOLEAN, dispatched : BOOLEAN]

Positions == 1..Len(records)

RunCounts ==
    /\ Cardinality(Dispatched) = dispatched
    /\ dispatched = count + (IF pc = "thread" THEN 1 ELSE 0)
    /\ dispatched <= mode.max
    /\ \A k \in Dispatched : records[k].known
                             /\ (mode.only # AnyId => records[k].id = mode.only)

(* Past the boot the loop has a position; only a thread that ran, or runs,
   can have freed the storage; a loop of one entry that was misled would have
   run none. *)
LoopSound ==
    /\ pc # "boot" => at \in Nat \ {0}
    /\ stale => pc = "thread" \/ count # 0
    /\ mode.max <= 1 => pc # "wild"

ThreadsInv == TypeOK /\ RunCounts /\ LoopSound

LEMMA RecordsType ==
    ASSUME TypeOK
    PROVE  /\ mode.max \in Nat /\ mode.only \in Id \cup {AnyId}
           /\ records \in Seq(ThreadRecord) /\ Len(records) \in Nat \ {0}
           /\ DOMAIN records = Positions
           /\ \A k \in Positions : records[k] \in ThreadRecord
           /\ MaxRecords[mode] \in Nat \ {0}
           /\ IsFiniteSet(Dispatched) /\ Dispatched \subseteq Positions
  <1>1. /\ mode.max \in Nat /\ mode.only \in Id \cup {AnyId}
        /\ MaxRecords[mode] \in Nat \ {0}
    BY ThreadsAssumption DEF TypeOK
  <1>2. records \in Seq(ThreadRecord)
    BY DEF TypeOK, ThreadRecord
  <1>3. Len(records) \in Nat \ {0} /\ DOMAIN records = Positions
    BY <1>1, <1>2, LenProperties DEF TypeOK, Positions
  <1>4. \A k \in Positions : records[k] \in ThreadRecord
    BY <1>2, ElementOfSeq DEF Positions
  <1>5. Dispatched \subseteq Positions
    BY DEF Dispatched, Positions
  <1>6. IsFiniteSet(Positions)
    BY <1>3, FS_Interval DEF Positions
  <1>7. IsFiniteSet(Dispatched)
    BY <1>5, <1>6, FS_Subset
  <1>. QED
    BY <1>1, <1>2, <1>3, <1>4, <1>5, <1>7

LEMMA ThreadsInit == Init => ThreadsInv
  <1>. SUFFICES ASSUME Init PROVE ThreadsInv
    OBVIOUS
  <1>. DEFINE r == [Record(HostThread, HostId, TRUE) EXCEPT !.started = TRUE]
  <1>1. r \in ThreadRecord /\ r.dispatched = FALSE
    BY ThreadsAssumption DEF Record, ThreadRecord
  <1>2. records = <<r>> /\ mode \in Modes
    BY DEF Init
  <1>. HIDE DEF r
  <1>3. records \in Seq(ThreadRecord) /\ Len(records) = 1 /\ records[1] = r
    BY <1>1, <1>2
  <1>4. mode.max \in Nat /\ MaxRecords[mode] \in Nat \ {0}
    BY <1>2, ThreadsAssumption
  <1>5. Dispatched = {}
    BY <1>1, <1>3 DEF Dispatched
  <1>6. Cardinality(Dispatched) = 0
    BY <1>5, FS_EmptySet
  <1>7. TypeOK
    <2>1. Len(records) \in 1..MaxRecords[mode] /\ 0 \in 0..Len(records)
      BY <1>3, <1>4
    <2>2. records \in Seq([thread : Thread \cup {HostThread}, id : Id,
                            known : BOOLEAN, started : BOOLEAN,
                            dispatched : BOOLEAN])
      BY <1>3 DEF ThreadRecord
    <2>3. /\ capacity = 1 /\ started = 1 /\ dispatched = 0 /\ pc = "boot"
          /\ at = 0 /\ last = 0 /\ count = 0 /\ stale = FALSE
          /\ mode \in Modes
      BY DEF Init
    <2>4. last \in 0..Len(records) /\ Len(records) <= capacity
      BY ONLY <1>3, <2>3
    <2>. QED
      BY ONLY <2>1, <2>2, <2>3, <2>4 DEF TypeOK
  <1>. QED
    BY <1>4, <1>5, <1>6, <1>7 DEF Init, ThreadsInv, RunCounts, LoopSound

(* A step that writes no flag of a dispatch and moves no record leaves the
   records that ran, and their selection, as they were. *)
LEMMA SameDispatches ==
    ASSUME TypeOK, RunCounts,
           Len(records') \in Nat, Len(records) <= Len(records'),
           \A k \in Positions :
               /\ records'[k].dispatched = records[k].dispatched
               /\ records'[k].known = records[k].known
               /\ records'[k].id = records[k].id,
           \A k \in 1..Len(records') : k \notin Positions =>
               ~records'[k].dispatched,
           mode' = mode, dispatched' = dispatched,
           dispatched' = count' + (IF pc' = "thread" THEN 1 ELSE 0)
    PROVE  RunCounts'
  <1>1. Len(records) \in Nat
    BY RecordsType
  <1>2. Dispatched' = Dispatched
    BY <1>1 DEF Dispatched, Positions
  <1>3. Dispatched \subseteq Positions
    BY RecordsType
  <1>. QED
    BY <1>2, <1>3 DEF RunCounts

(* A record more. *)
LEMMA CreateKeeps ==
    ASSUME ThreadsInv, NEW t \in Thread, NEW i \in Id, NEW known \in BOOLEAN,
           osCreateThread(t, i, known)
    PROVE  ThreadsInv'
  <1>. DEFINE r == Record(t, i, known)
  <1>1. r \in ThreadRecord /\ ~r.dispatched
    BY DEF Record, ThreadRecord
  <1>2. records' = Append(records, r)
    BY DEF osCreateThread
  <1>. HIDE DEF r
  <1>3. TypeOK /\ RunCounts /\ LoopSound
    BY DEF ThreadsInv
  <1>4. records \in Seq(ThreadRecord) /\ Len(records) \in Nat \ {0}
    BY <1>3, RecordsType
  <1>5. /\ records' \in Seq(ThreadRecord) /\ Len(records') = Len(records) + 1
        /\ \A k \in Positions : records'[k] = records[k]
        /\ records'[Len(records) + 1] = r
    BY <1>1, <1>2, <1>4, AppendProperties DEF Positions
  <1>6. TypeOK'
    <2>1. capacity' \in Nat /\ Len(records') <= capacity' /\ stale' \in BOOLEAN
      <3>1. capacity \in Nat /\ Len(records) <= capacity /\ stale \in BOOLEAN
        BY <1>3 DEF TypeOK
      <3>2. CASE Len(records) = capacity
        BY <1>4, <1>5, <3>1, <3>2 DEF osCreateThread
      <3>3. CASE Len(records) # capacity
        BY <1>4, <1>5, <3>1, <3>3 DEF osCreateThread
      <3>. QED
        BY <3>2, <3>3
    <2>2. Len(records') \in 1..MaxRecords[mode]
      BY <1>3, <1>4, <1>5, RecordsType DEF osCreateThread
    <2>3. last' \in 0..Len(records')
      BY <1>3, <1>4, <1>5 DEF osCreateThread, loop, TypeOK
    <2>. QED
      BY <1>3, <1>5, <2>1, <2>2, <2>3
      DEF osCreateThread, loop, TypeOK, ThreadRecord
  <1>7. RunCounts'
    <2>1. \A k \in 1..Len(records') : k \notin Positions =>
             ~records'[k].dispatched
      BY <1>1, <1>4, <1>5 DEF Positions
    <2>2. /\ mode' = mode /\ dispatched' = dispatched
          /\ dispatched' = count' + (IF pc' = "thread" THEN 1 ELSE 0)
      BY <1>3 DEF osCreateThread, loop, RunCounts
    <2>3. Len(records') \in Nat /\ Len(records) <= Len(records')
      BY <1>4, <1>5
    <2>. QED
      BY <1>3, <1>5, <2>1, <2>2, <2>3, SameDispatches
  <1>8. LoopSound'
    BY <1>3 DEF osCreateThread, loop, LoopSound
  <1>. QED
    BY <1>6, <1>7, <1>8 DEF ThreadsInv

(* The started flag of a record is written, by a start or a stop. *)
LEMMA FlagKeeps ==
    ASSUME ThreadsInv, NEW k \in Positions, NEW b \in BOOLEAN,
           records' = [records EXCEPT ![k].started = b],
           started' \in Nat,
           UNCHANGED <<capacity, dispatched, pc, stale, loop>>
    PROVE  ThreadsInv'
  <1>1. TypeOK /\ RunCounts /\ LoopSound
    BY DEF ThreadsInv
  <1>2. /\ records \in Seq(ThreadRecord) /\ Len(records) \in Nat \ {0}
        /\ \A j \in Positions : records[j] \in ThreadRecord
    BY <1>1, RecordsType
  <1>. DEFINE r == [records[k] EXCEPT !.started = b]
  <1>3. r \in ThreadRecord /\ r.dispatched = records[k].dispatched
        /\ r.known = records[k].known /\ r.id = records[k].id
    BY <1>2 DEF ThreadRecord
  <1>4. records' = [records EXCEPT ![k] = r]
    BY <1>2
  <1>. HIDE DEF r
  <1>5. /\ records' \in Seq(ThreadRecord) /\ Len(records') = Len(records)
        /\ \A j \in Positions : records'[j] = IF j = k THEN r ELSE records[j]
    <2>1. k \in 1..Len(records)
      BY DEF Positions
    <2>. DEFINE s == [records EXCEPT ![k] = r]
    <2>2. /\ s \in Seq(ThreadRecord) /\ Len(s) = Len(records)
          /\ \A j \in 1..Len(records) : s[j] = IF j = k THEN r ELSE records[j]
      BY ONLY <1>2, <1>3, <2>1, ExceptSeq
    <2>. QED
      BY <1>4, <2>2 DEF Positions
  <1>6. TypeOK'
    BY <1>1, <1>5 DEF TypeOK, loop, ThreadRecord
  <1>7. RunCounts'
    <2>1. \A j \in Positions :
             /\ records'[j].dispatched = records[j].dispatched
             /\ records'[j].known = records[j].known
             /\ records'[j].id = records[j].id
      BY <1>3, <1>5
    <2>2. \A j \in 1..Len(records') : j \notin Positions =>
             ~records'[j].dispatched
      BY <1>5 DEF Positions
    <2>3. /\ mode' = mode /\ dispatched' = dispatched
          /\ dispatched' = count' + (IF pc' = "thread" THEN 1 ELSE 0)
      BY <1>1 DEF loop, RunCounts
    <2>4. Len(records') \in Nat /\ Len(records) <= Len(records')
      BY <1>2, <1>5
    <2>. QED
      BY <1>1, <2>1, <2>2, <2>3, <2>4, SameDispatches
  <1>8. LoopSound'
    BY <1>1 DEF loop, LoopSound
  <1>. QED
    BY <1>6, <1>7, <1>8 DEF ThreadsInv

(* The loop runs an entry: one more ran, and it was not among them. *)
LEMMA DispatchKeeps == ASSUME ThreadsInv, Dispatch PROVE ThreadsInv'
  <1>1. TypeOK /\ RunCounts /\ LoopSound
    BY DEF ThreadsInv
  <1>2. /\ records \in Seq(ThreadRecord) /\ Len(records) \in Nat \ {0}
        /\ \A j \in Positions : records[j] \in ThreadRecord
        /\ mode.max \in Nat /\ IsFiniteSet(Dispatched)
    BY <1>1, RecordsType
  <1>3. /\ pc = "loop" /\ at <= last /\ count < mode.max /\ ~stale
        /\ Selected(records[at])
        /\ records' = [records EXCEPT ![at].dispatched = TRUE]
        /\ dispatched' = dispatched + 1 /\ pc' = "thread"
        /\ UNCHANGED <<mode, at, last, count, capacity, started, stale>>
    BY DEF Dispatch, Looking, loop
  <1>4. at \in Positions
    BY <1>1, <1>2, <1>3 DEF TypeOK, LoopSound, Positions
  <1>. DEFINE r == [records[at] EXCEPT !.dispatched = TRUE]
  <1>5. /\ r \in ThreadRecord /\ r.dispatched
        /\ r.known = records[at].known /\ r.id = records[at].id
    BY <1>2, <1>4 DEF ThreadRecord
  <1>6. records' = [records EXCEPT ![at] = r]
    BY <1>2, <1>3, <1>4
  <1>. HIDE DEF r
  <1>7. /\ records' \in Seq(ThreadRecord) /\ Len(records') = Len(records)
        /\ \A j \in Positions : records'[j] = IF j = at THEN r ELSE records[j]
    BY <1>2, <1>4, <1>5, <1>6, ExceptSeq DEF Positions
  <1>8. TypeOK'
    BY <1>1, <1>3, <1>7 DEF TypeOK, ThreadRecord
  <1>9. Dispatched' = Dispatched \cup {at} /\ at \notin Dispatched
    BY <1>3, <1>4, <1>5, <1>7 DEF Dispatched, Positions, Selected
  <1>10. RunCounts'
    <2>1. Cardinality(Dispatched') = Cardinality(Dispatched) + 1
      BY <1>2, <1>9, FS_AddElement
    <2>2. /\ count \in Nat /\ dispatched = count
          /\ Cardinality(Dispatched) = dispatched
      BY <1>1, <1>3 DEF RunCounts, TypeOK
    <2>3. \A k \in Dispatched' :
             records'[k].known
             /\ (mode'.only # AnyId => records'[k].id = mode'.only)
      <3>. SUFFICES ASSUME NEW k \in Dispatched \cup {at}
                    PROVE  records'[k].known
                           /\ (mode.only # AnyId => records'[k].id = mode.only)
        BY <1>3, <1>9
      <3>1. CASE k = at
        BY <1>3, <1>4, <1>5, <1>7, <3>1 DEF Selected
      <3>2. CASE k # at
        <4>1. k \in Dispatched /\ k \in Positions
          BY <3>2 DEF Dispatched, Positions
        <4>2. records'[k] = records[k]
          BY <1>7, <3>2, <4>1
        <4>. QED
          BY <1>1, <4>1, <4>2 DEF RunCounts
      <3>. QED
        BY <3>1, <3>2
    <2>. QED
      BY <1>2, <1>3, <2>1, <2>2, <2>3 DEF RunCounts
  <1>11. LoopSound'
    BY <1>1, <1>3 DEF LoopSound, TypeOK
  <1>. QED
    BY <1>8, <1>10, <1>11 DEF ThreadsInv

(* A step of the loop that writes no record. *)
LEMMA QuietLoop ==
    ASSUME ThreadsInv, UNCHANGED <<mode, records, capacity, started, dispatched,
                                   stale>>,
           pc' \in {"boot", "loop", "thread", "wild", "end"},
           at' \in Nat, last' \in 0..Len(records), count' \in Nat,
           dispatched' = count' + (IF pc' = "thread" THEN 1 ELSE 0),
           LoopSound'
    PROVE  ThreadsInv'
  <1>1. TypeOK /\ RunCounts
    BY DEF ThreadsInv
  <1>2. TypeOK'
    BY <1>1 DEF TypeOK
  <1>3. Dispatched' = Dispatched
    BY DEF Dispatched
  <1>4. RunCounts'
    BY <1>1, <1>3 DEF RunCounts, Dispatched
  <1>. QED
    BY <1>2, <1>4 DEF ThreadsInv

LEMMA ThreadsStep == ASSUME ThreadsInv, [Next]_vars PROVE ThreadsInv'
  <1>1. TypeOK /\ RunCounts /\ LoopSound
    BY DEF ThreadsInv
  <1>2. mode.max \in Nat /\ Len(records) \in Nat \ {0}
    BY <1>1, RecordsType
  <1>3. ASSUME NEW t \in Thread, NEW i \in Id, NEW known \in BOOLEAN,
               osCreateThread(t, i, known)
        PROVE  ThreadsInv'
    BY <1>3, CreateKeeps
  <1>4. ASSUME NEW t \in Thread \cup {HostThread}, osStartThread(t)
        PROVE  ThreadsInv'
    <2>1. started' \in Nat
      BY <1>1, <1>4 DEF osStartThread, TypeOK
    <2>2. UNCHANGED <<capacity, dispatched, pc, stale, loop>>
      BY <1>4 DEF osStartThread
    <2>3. ASSUME NEW k \in 1..Len(records),
                 records' = [records EXCEPT ![k].started = TRUE]
          PROVE  ThreadsInv'
      <3>1. k \in Positions
        BY DEF Positions
      <3>. QED
        BY <2>1, <2>2, <2>3, <3>1, FlagKeeps
    <2>4. CASE UNCHANGED records
      <3>1. LoopSound'
        BY <1>1, <2>2 DEF LoopSound, loop
      <3>2. TypeOK'
        BY <1>1, <2>1, <2>2, <2>4 DEF TypeOK, loop
      <3>3. RunCounts'
        BY <1>1, <2>2, <2>4 DEF RunCounts, Dispatched, loop
      <3>. QED
        BY <3>1, <3>2, <3>3 DEF ThreadsInv
    <2>. QED
      BY <1>4, <2>3, <2>4 DEF osStartThread
  <1>5. ASSUME NEW t \in Thread \cup {HostThread}, osStopThread(t)
        PROVE  ThreadsInv'
    <2>1. PICK k \in 1..Len(records) :
             records' = [records EXCEPT ![k].started = FALSE]
      BY <1>5 DEF osStopThread
    <2>2. started' \in Nat /\ k \in Positions
          /\ UNCHANGED <<capacity, dispatched, pc, stale, loop>>
      BY <1>1, <1>5 DEF osStopThread, TypeOK, Positions
    <2>. QED
      BY <2>1, <2>2, FlagKeeps
  <1>6. CASE EnterLoop
    BY <1>1, <1>2, <1>6, QuietLoop DEF EnterLoop, LoopSound, RunCounts, TypeOK
  <1>7. CASE LoopEnds
    BY <1>1, <1>2, <1>7, QuietLoop DEF LoopEnds, LoopSound, RunCounts, TypeOK, loop
  <1>8. CASE Skip
    BY <1>1, <1>2, <1>8, QuietLoop DEF Skip, Looking, LoopSound, RunCounts, TypeOK
  <1>9. CASE Dispatch
    BY <1>9, DispatchKeeps
  <1>10. CASE ThreadReturns
    BY <1>1, <1>2, <1>10, QuietLoop
    DEF ThreadReturns, LoopSound, RunCounts, TypeOK
  <1>11. CASE ReadFreed
    BY <1>1, <1>2, <1>11, QuietLoop
    DEF ReadFreed, Looking, LoopSound, RunCounts, TypeOK, loop
  <1>12. CASE UNCHANGED vars
    <2>1. TypeOK' /\ LoopSound'
      BY <1>1, <1>12 DEF vars, TypeOK, LoopSound
    <2>2. RunCounts'
      BY <1>1, <1>12 DEF vars, RunCounts, Dispatched
    <2>. QED
      BY <2>1, <2>2 DEF ThreadsInv
  <1>. QED
    BY <1>3, <1>4, <1>5, <1>6, <1>7, <1>8, <1>9, <1>10, <1>11, <1>12 DEF Next

LEMMA ThreadsInvariant == Spec => []ThreadsInv
  <1>. QED
    BY ThreadsInit, ThreadsStep, PTL DEF Spec

(* The flags of the records, threads_dispatched and the loop's own count
   agree, never pass the limit, and only records the caller selected ran. *)
THEOREM DispatchesCorrect == Spec => []DispatchesAgree
  <1>1. ThreadsInv => DispatchesAgree
    BY DEF ThreadsInv, RunCounts, DispatchesAgree
  <1>. QED
    BY <1>1, ThreadsInvariant, PTL

(* The loop of at most one entry, as the probe calls it, is never misled by
   a vector that grew under it. *)
THEOREM OneEntryIsSafe == Spec => []NeverReadsFreed
  <1>1. ThreadsInv => NeverReadsFreed
    BY DEF ThreadsInv, LoopSound, NeverReadsFreed
  <1>. QED
    BY <1>1, ThreadsInvariant, PTL

(* What was dispatched stays so, whatever is stopped, started or created
   again: no entry is run twice. *)
THEOREM RunsOnce == Spec => DispatchOnce
  <1>. DEFINE Kept == \A k \in 1..Len(records) :
                         records[k].dispatched => records'[k].dispatched
  <1>1. ASSUME ThreadsInv, [Next]_vars PROVE [Kept]_vars
    <2>1. TypeOK
      BY <1>1 DEF ThreadsInv
    <2>2. /\ records \in Seq(ThreadRecord) /\ Len(records) \in Nat
          /\ DOMAIN records = Positions
          /\ \A j \in Positions : records[j] \in ThreadRecord
      BY <2>1, RecordsType
    <2>3. CASE UNCHANGED records
      BY <2>3
    <2>4. ASSUME NEW r, records' = Append(records, r) PROVE Kept
      BY <2>2, <2>4, AppendProperties
    <2>5. ASSUME NEW j \in 1..Len(records), NEW b,
                 records' = [records EXCEPT ![j].started = b]
          PROVE  Kept
      BY <2>2, <2>5 DEF Positions, ThreadRecord
    <2>6. CASE records' = [records EXCEPT ![at].dispatched = TRUE]
      BY <2>2, <2>6 DEF Positions, ThreadRecord
    <2>. QED
      BY <1>1, <2>3, <2>4, <2>5, <2>6
      DEF Next, vars, osCreateThread, osStartThread, osStopThread, EnterLoop,
          LoopEnds, Skip, Dispatch, ThreadReturns, ReadFreed
  <1>. QED
    BY <1>1, ThreadsInvariant, PTL DEF Spec, DispatchOnce

-----------------------------------------------------------------------------
(***************************************************************************)
(* The guarded child and the parent's report.                              *)
(***************************************************************************)
Event ==
    {<<"returned", 1>>, <<"returned", 2>>}
      \cup {<<"signal", s>> : s \in Handled \cup Fatal}
      \cup {<<"stop", code>> : code \in HostStop}

Heard(s) == \E k \in 1..Len(events) : events[k] = <<"signal", s>>

Entered == <<<<"returned", 1>>>>
Through == <<<<"returned", 1>>, <<"returned", 2>>>>

(* Why the child ended, if this is its wait status. *)
Cause(line) ==
    \/ line = <<"exit", 0>> /\ events = Through
    \/ \E code \in HostStop :
          line = <<"exit", code>> /\ Last = <<"stop", code>> /\ Signals = {}
    \/ \E s \in Handled : line = <<"exit", 128 + s>> /\ Last = <<"signal", s>>
    \/ \E s \in Handled \cup Fatal :
          /\ line = <<"signal", s>> /\ Last = <<"signal", s>>
          /\ s \in Handled <=>
                \E k \in 1..(Len(events) - 1) : events[k] = Last

(* What befell a child that lives: signals with a handler only, each handler
   installed until its signal came, the latest of them last. *)
ChildSound ==
    /\ child = "none" => events = <<>> /\ handling = <<>>
    /\ Alive =>
          /\ \A s : Heard(s) => s \in Handled
          /\ \A s \in Handled : s \in installed <=> ~Heard(s)
          /\ handling = <<>> =>
                /\ child = "entry" => events = <<>>
                /\ child = "threads" => events = Entered
                /\ child = "summary" => events = Through
          /\ handling # <<>> => Last = <<"signal", handling[Len(handling)]>>
    /\ child = "dead" => Cause(status)

Lines == {"skipped", "fork_failed", "waitpid_failed"} \X {0}

ParentSound ==
    /\ parent = "decide" <=> child = "none" /\ report = NoStatus
    /\ Alive => parent = "wait"
    /\ parent = "end" =>
          (child = "dead" /\ report = status) \/ report \in Lines

ProbeInv ==
    /\ ProbeTypeOK
    /\ events \in Seq(Event)
    /\ ChildSound
    /\ ParentSound

LEMMA Signs ==
    /\ Handled \subseteq 1..64 /\ Fatal \subseteq 1..64
    /\ HostStop \subseteq 1..255
    /\ \A s \in Handled : s \notin Fatal /\ 128 + s \notin HostStop
    /\ SIGALRM \in Handled /\ Fault \subseteq Handled
  <1>1. SIGALRM \in Handled /\ Fault \subseteq Handled
    BY DEF Handled
  <1>2. Handled \subseteq 1..64
    <2>1. Fault \subseteq 1..64
      BY ProbeAssumption
    <2>2. SIGALRM \in 1..64
      BY ProbeAssumption
    <2>. QED
      BY ONLY <2>1, <2>2 DEF Handled
  <1>3. Fatal \subseteq 1..64 /\ \A s \in Handled : s \notin Fatal
    BY ProbeAssumption DEF Handled
  <1>4. \A s \in Handled : 128 + s \notin HostStop
    BY ProbeAssumption DEF Handled
  <1>. QED
    BY <1>1, <1>2, <1>3, <1>4, ProbeAssumption

(* The ways to end are wait statuses. *)
LEMMA CausesAreStatuses ==
    /\ <<"exit", 0>> \in Statuses \ {NoStatus}
    /\ \A code \in HostStop : <<"exit", code>> \in Statuses \ {NoStatus}
    /\ \A s \in Handled : <<"exit", 128 + s>> \in Statuses \ {NoStatus}
    /\ \A s \in Handled \cup Fatal : <<"signal", s>> \in Statuses \ {NoStatus}
  <1>1. \A code \in 0..255 : <<"exit", code>> \in Statuses \ {NoStatus}
    BY DEF Statuses, NoStatus
  <1>2. \A code \in HostStop : code \in 0..255
    BY Signs
  <1>3. \A s \in Handled : 128 + s \in 0..255
    BY Signs
  <1>4. \A s \in Handled \cup Fatal : <<"signal", s>> \in Statuses \ {NoStatus}
    BY DEF Statuses, NoStatus
  <1>5. 0 \in 0..255
    OBVIOUS
  <1>. QED
    BY <1>1, <1>2, <1>3, <1>4, <1>5

LEMMA PairAppended ==
    ASSUME NEW a, NEW b
    PROVE  Append(<<a>>, b) = <<a, b>>
  <1>. DEFINE s == Append(<<a>>, b)
              t == <<a, b>>
  <1>1. <<a>> \in Seq({a, b}) /\ Len(<<a>>) = 1 /\ <<a>>[1] = a
    OBVIOUS
  <1>2. /\ s \in Seq({a, b}) /\ Len(s) = 2 /\ s[1] = a /\ s[2] = b
    BY <1>1, AppendProperties
  <1>3. t \in Seq({a, b}) /\ Len(t) = 2 /\ t[1] = a /\ t[2] = b
    OBVIOUS
  <1>. HIDE DEF s, t
  <1>4. \A i \in 1..Len(s) : s[i] = t[i]
    BY <1>2, <1>3
  <1>. QED
    BY <1>2, <1>3, <1>4, SeqEqual DEF s, t

LEMMA EventHappens ==
    ASSUME events \in Seq(Event), NEW e \in Event, Happens(e)
    PROVE  /\ events' \in Seq(Event)
           /\ Len(events) \in Nat /\ Len(events') = Len(events) + 1
           /\ \A k \in 1..Len(events) : events'[k] = events[k]
           /\ events'[Len(events) + 1] = e
           /\ Last' = e
           /\ \A s : Heard(s)' <=> Heard(s) \/ e = <<"signal", s>>
  <1>1. events' = Append(events, e)
    BY DEF Happens
  <1>2. /\ events' \in Seq(Event)
        /\ Len(events) \in Nat /\ Len(events') = Len(events) + 1
        /\ \A k \in 1..Len(events) : events'[k] = events[k]
        /\ events'[Len(events) + 1] = e
    BY <1>1, AppendProperties
  <1>3. Last' = e
    BY <1>2 DEF Last
  <1>4. ASSUME NEW s PROVE Heard(s)' <=> Heard(s) \/ e = <<"signal", s>>
    <2>1. ASSUME NEW k \in 1..Len(events), events[k] = <<"signal", s>>
          PROVE  Heard(s)'
      <3>1. k \in 1..Len(events') /\ events'[k] = <<"signal", s>>
        BY <1>2, <2>1
      <3>. QED
        BY <3>1 DEF Heard
    <2>2. ASSUME e = <<"signal", s>> PROVE Heard(s)'
      <3>1. Len(events') \in 1..Len(events')
            /\ events'[Len(events')] = <<"signal", s>>
        BY <1>2, <2>2
      <3>. QED
        BY <3>1 DEF Heard
    <2>3. ASSUME NEW k \in 1..Len(events'), events'[k] = <<"signal", s>>
          PROVE  Heard(s) \/ e = <<"signal", s>>
      <3>1. k \in 1..Len(events) \/ k = Len(events) + 1
        BY <1>2
      <3>. QED
        BY <1>2, <2>3, <3>1 DEF Heard
    <2>. QED
      BY <2>1, <2>2, <2>3 DEF Heard
  <1>. QED
    BY <1>2, <1>3, <1>4

LEMMA ProbeInitKeeps == ProbeInit => ProbeInv
  <1>. SUFFICES ASSUME ProbeInit PROVE ProbeInv
    OBVIOUS
  <1>1. ~Alive /\ child = "none" /\ handling = <<>> /\ events = <<>>
    BY DEF ProbeInit, Alive
  <1>2. handling \in Seq(Handled) /\ events \in Seq(Event)
    BY <1>1
  <1>3. ProbeTypeOK
    BY <1>2 DEF ProbeInit, ProbeTypeOK, Statuses, NoStatus
  <1>4. ChildSound
    BY <1>1 DEF ChildSound
  <1>5. ParentSound
    BY <1>1 DEF ProbeInit, ParentSound
  <1>. QED
    BY <1>2, <1>3, <1>4, <1>5 DEF ProbeInv

(* The parent's steps leave the child's history alone. *)
LEMMA SameChild ==
    ASSUME ProbeInv, UNCHANGED childvars
    PROVE  events' \in Seq(Event) /\ ChildSound'
  <1>1. UNCHANGED <<child, handling, installed, armed, status, events>>
    BY DEF childvars
  <1>2. Last' = Last /\ Signals' = Signals /\ Alive' = Alive
    BY <1>1 DEF Last, Signals, Alive
  <1>3. Cause(status)' <=> Cause(status)
    BY <1>1, <1>2 DEF Cause
  <1>4. \A s : Heard(s)' <=> Heard(s)
    BY <1>1 DEF Heard
  <1>. QED
    BY <1>1, <1>2, <1>3, <1>4 DEF ProbeInv, ChildSound

LEMMA ParentEnds ==
    ASSUME ProbeInv, NEW line \in Statuses \cup Lines, line # NoStatus,
           parent' = "end" /\ report' = line, UNCHANGED <<inputs, childvars>>,
           ~Alive, (line = status /\ child = "dead") \/ line \in Lines
    PROVE  ProbeInv'
  <1>1. UNCHANGED <<setting, timeout, child, handling, installed, armed, status,
                    events>>
    BY DEF inputs, childvars
  <1>2. ProbeTypeOK'
    BY <1>1 DEF ProbeInv, ProbeTypeOK, Statuses, Lines
  <1>3. ParentSound'
    BY <1>1 DEF ParentSound, Alive
  <1>4. events' \in Seq(Event) /\ ChildSound'
    BY SameChild
  <1>. QED
    BY <1>2, <1>3, <1>4 DEF ProbeInv

LEMMA ForkKeeps == ASSUME ProbeInv, Fork PROVE ProbeInv'
  <1>1. /\ parent = "decide" /\ parent' = "wait" /\ child = "none"
        /\ child' = "entry" /\ installed' = Handled /\ armed' \in BOOLEAN
        /\ UNCHANGED <<setting, timeout, report, handling, status, events>>
        /\ events = <<>> /\ handling = <<>> /\ report = NoStatus
    BY DEF Fork, inputs, ProbeInv, ParentSound, ChildSound
  <1>2. ProbeTypeOK'
    BY <1>1 DEF ProbeInv, ProbeTypeOK
  <1>3. \A s : ~Heard(s)'
    BY <1>1 DEF Heard
  <1>4. ChildSound'
    BY <1>1, <1>3 DEF ChildSound
  <1>5. ParentSound'
    BY <1>1 DEF ParentSound
  <1>. QED
    BY <1>1, <1>2, <1>4, <1>5 DEF ProbeInv

(* The child dies, and its status says of what. *)
LEMMA DeathKeeps ==
    ASSUME ProbeInv, Alive, NEW how, Dies(how), Cause(how)',
           events' \in Seq(Event), UNCHANGED <<inputs, parent, report>>,
           handling' = handling, installed' = installed
    PROVE  ProbeInv'
  <1>1. child' = "dead" /\ status' = how /\ armed' = FALSE
    BY DEF Dies
  <1>2. ~Alive' /\ child # "none" /\ child # "dead" /\ parent = "wait"
    BY <1>1 DEF Alive, ProbeInv, ParentSound
  <1>3. how \in Statuses
    BY CausesAreStatuses DEF Cause
  <1>4. ProbeTypeOK'
    BY <1>1, <1>3 DEF ProbeInv, ProbeTypeOK, inputs, Statuses
  <1>5. Cause(status)'
    BY <1>1 DEF Cause
  <1>6. ChildSound'
    BY <1>1, <1>2, <1>5 DEF ChildSound
  <1>7. ParentSound'
    BY <1>1, <1>2 DEF ParentSound
  <1>. QED
    BY <1>4, <1>6, <1>7 DEF ProbeInv

LEMMA ReturnKeeps ==
    ASSUME ProbeInv, EntryReturns \/ ThreadsReturn
    PROVE  ProbeInv'
  <1>1. /\ handling = <<>> /\ Alive /\ Alive' /\ parent = "wait"
        /\ UNCHANGED <<setting, timeout, parent, report, handling, installed,
                       armed, status>>
        /\ \/ /\ child = "entry" /\ child' = "threads" /\ events = <<>>
              /\ Happens(<<"returned", 1>>)
           \/ /\ child = "threads" /\ child' = "summary" /\ events = Entered
              /\ Happens(<<"returned", 2>>)
    BY DEF EntryReturns, ThreadsReturn, Alive, inputs, ProbeInv, ParentSound,
           ChildSound
  <1>2. PICK i \in 1..2 : Happens(<<"returned", i>>)
    BY <1>1
  <1>3. <<"returned", i>> \in Event
    BY DEF Event
  <1>4. events' \in Seq(Event) /\ \A s : Heard(s)' <=> Heard(s)
    BY <1>2, <1>3, EventHappens DEF ProbeInv
  <1>5. /\ child' = "threads" => events' = Entered
        /\ child' = "summary" => events' = Through
    <2>1. Append(<<>>, <<"returned", 1>>) = Entered
      BY DEF Entered
    <2>2. Append(Entered, <<"returned", 2>>) = Through
      BY PairAppended DEF Entered, Through
    <2>. QED
      BY <1>1, <2>1, <2>2 DEF Happens
  <1>6. ProbeTypeOK'
    BY <1>1 DEF ProbeInv, ProbeTypeOK
  <1>7. ChildSound'
    BY <1>1, <1>4, <1>5 DEF ProbeInv, ChildSound
  <1>8. ParentSound'
    BY <1>1 DEF ProbeInv, ParentSound, Alive
  <1>. QED
    BY <1>4, <1>6, <1>7, <1>8 DEF ProbeInv

(* A signal: the handler starts, or the child is killed. *)
LEMMA DeliverKeeps ==
    ASSUME ProbeInv, Alive, NEW s \in Handled \cup Fatal, Deliver(s)
    PROVE  ProbeInv'
  <1>1. <<"signal", s>> \in Event /\ Happens(<<"signal", s>>)
        /\ events \in Seq(Event)
        /\ UNCHANGED <<setting, timeout, parent, report>>
    BY DEF Event, Deliver, ProbeInv, inputs
  <1>2. /\ events' \in Seq(Event)
        /\ Len(events) \in Nat /\ Len(events') = Len(events) + 1
        /\ \A k \in 1..Len(events) : events'[k] = events[k]
        /\ Last' = <<"signal", s>>
        /\ \A x : Heard(x)' <=> Heard(x) \/ <<"signal", s>> = <<"signal", x>>
    BY <1>1, EventHappens
  <1>3. \A x : Heard(x)' <=> Heard(x) \/ x = s
    BY <1>2
  <1>4. /\ \A x : Heard(x) => x \in Handled
        /\ \A x \in Handled : x \in installed <=> ~Heard(x)
    BY DEF ProbeInv, ChildSound
  <1>5. CASE s \in installed
    <2>1. /\ handling' = Append(handling, s) /\ installed' = installed \ {s}
          /\ armed' \in BOOLEAN /\ UNCHANGED <<child, status>>
      BY <1>5 DEF Deliver, ProbeInv, ProbeTypeOK
    <2>2. s \in Handled /\ handling \in Seq(Handled)
      BY <1>5 DEF ProbeInv, ProbeTypeOK
    <2>3. /\ handling' \in Seq(Handled) /\ handling' # <<>>
          /\ handling'[Len(handling')] = s
      BY <2>1, <2>2, AppendProperties
    <2>4. ProbeTypeOK'
      BY <1>1, <2>1, <2>3 DEF ProbeInv, ProbeTypeOK
    <2>5. Alive' /\ child' # "none" /\ child' # "dead"
      BY <2>1 DEF Alive
    <2>6. /\ \A x : Heard(x)' => x \in Handled
          /\ \A x \in Handled : x \in installed' <=> ~Heard(x)'
      BY <1>3, <1>4, <2>1, <2>2
    <2>7. ChildSound'
      BY <1>2, <2>3, <2>5, <2>6 DEF ChildSound
    <2>8. ParentSound'
      BY <1>1, <2>1 DEF ProbeInv, ParentSound, Alive
    <2>. QED
      BY <1>2, <2>4, <2>7, <2>8 DEF ProbeInv
  <1>6. CASE s \notin installed
    <2>1. Dies(<<"signal", s>>) /\ handling' = handling /\ installed' = installed
          /\ UNCHANGED <<inputs, parent, report>>
      BY <1>6 DEF Deliver
    <2>2. s \in Handled <=> Heard(s)
      BY <1>4, <1>6
    <2>3. s \in Handled <=> \E k \in 1..(Len(events') - 1) : events'[k] = Last'
      BY <1>2, <2>2 DEF Heard
    <2>4. Cause(<<"signal", s>>)'
      BY <1>2, <2>3 DEF Cause
    <2>. QED
      BY <1>2, <2>1, <2>4, DeathKeeps
  <1>. QED
    BY <1>5, <1>6

LEMMA ProbeStep == ASSUME ProbeInv, [ProbeNext]_probeVars PROVE ProbeInv'
  <1>1. CASE SkipProbe
    <2>1. ~Alive /\ <<"skipped", 0>> \in Lines /\ <<"skipped", 0>> # NoStatus
      BY <1>1 DEF SkipProbe, ProbeInv, ParentSound, Alive, Lines, NoStatus
    <2>. QED
      BY <1>1, <2>1, ParentEnds DEF SkipProbe, Ends
  <1>2. CASE ForkFails
    <2>1. LookupEnabled
      BY <1>2 DEF ForkFails, Requested, LookupEnabled
    <2>2. /\ ~Alive /\ <<"fork_failed", 0>> \in Lines
          /\ <<"fork_failed", 0>> # NoStatus
      BY <1>2 DEF ForkFails, ProbeInv, ParentSound, Alive, Lines, NoStatus
    <2>. QED
      BY <1>2, <2>1, <2>2, ParentEnds DEF ForkFails, Ends
  <1>3. CASE Fork
    BY <1>3, ForkKeeps
  <1>4. CASE Wait
    <2>1. ~Alive /\ child = "dead" /\ UNCHANGED <<inputs, childvars>>
      BY <1>4 DEF Wait, Alive
    <2>2. Cause(status)
      BY <2>1 DEF ProbeInv, ChildSound
    <2>3. status \in Statuses \ {NoStatus}
      BY <2>2, CausesAreStatuses DEF Cause
    <2>4. CASE Ends(status)
      BY <2>1, <2>3, <2>4, ParentEnds DEF Ends
    <2>5. CASE Ends(<<"waitpid_failed", 0>>)
      <3>1. /\ <<"waitpid_failed", 0>> \in Lines
            /\ <<"waitpid_failed", 0>> # NoStatus
        BY DEF Lines, NoStatus
      <3>. QED
        BY <2>1, <2>5, <3>1, ParentEnds DEF Ends
    <2>. QED
      BY <1>4, <2>4, <2>5 DEF Wait
  <1>5. CASE EntryReturns \/ ThreadsReturn
    BY <1>5, ReturnKeeps
  <1>6. CASE Exit
    <2>1. Alive /\ events = Through
      BY <1>6 DEF Exit, Alive, ProbeInv, ChildSound
    <2>2. /\ events' = Through /\ events' \in Seq(Event)
          /\ Dies(<<"exit", 0>>) /\ handling' = handling
          /\ installed' = installed /\ UNCHANGED <<inputs, parent, report>>
      BY <1>6, <2>1 DEF Exit, ProbeInv
    <2>3. Cause(<<"exit", 0>>)'
      BY <2>2 DEF Cause
    <2>. QED
      BY <2>1, <2>2, <2>3, DeathKeeps
  <1>7. ASSUME NEW code \in HostStop, Stop(code) PROVE ProbeInv'
    <2>1. /\ Alive /\ Happens(<<"stop", code>>) /\ events \in Seq(Event)
          /\ events = <<>> \/ events = Entered
          /\ Dies(<<"exit", code>>) /\ handling' = handling
          /\ installed' = installed /\ UNCHANGED <<inputs, parent, report>>
      BY <1>7 DEF Stop, Alive, ProbeInv, ChildSound
    <2>2. <<"stop", code>> \in Event
      BY DEF Event
    <2>3. /\ events' \in Seq(Event) /\ Last' = <<"stop", code>>
          /\ \A x : Heard(x)' <=> Heard(x) \/ <<"stop", code>> = <<"signal", x>>
      BY <2>1, <2>2, EventHappens
    <2>4. \A x : ~Heard(x)
      BY <2>1 DEF Heard, Entered
    <2>5. \A x : ~Heard(x)'
      BY <2>3, <2>4
    <2>6. Signals' = {}
      BY <2>5 DEF Signals, Heard
    <2>7. Cause(<<"exit", code>>)'
      BY <2>3, <2>6 DEF Cause
    <2>. QED
      BY <2>1, <2>3, <2>7, DeathKeeps
  <1>8. ASSUME NEW s \in Fault \cup Fatal, Faults(s) PROVE ProbeInv'
    <2>1. Alive /\ Deliver(s) /\ s \in Handled \cup Fatal
      BY <1>8 DEF Faults, Alive, Handled
    <2>. QED
      BY <2>1, DeliverKeeps
  <1>9. CASE AlarmRings
    BY <1>9, Signs, DeliverKeeps DEF AlarmRings
  <1>10. CASE HandlerExits
    <2>. DEFINE s == handling[Len(handling)]
    <2>1. /\ Alive /\ handling # <<>> /\ Dies(<<"exit", 128 + s>>)
          /\ handling' = handling /\ installed' = installed
          /\ events' = events /\ UNCHANGED <<inputs, parent, report>>
          /\ events \in Seq(Event) /\ handling \in Seq(Handled)
          /\ Last = <<"signal", s>>
      BY <1>10 DEF HandlerExits, ProbeInv, ChildSound, ProbeTypeOK
    <2>2. s \in Handled
      <3>1. Len(handling) \in 1..Len(handling)
        BY <2>1, EmptySeq, LenProperties
      <3>. QED
        BY <2>1, <3>1, ElementOfSeq
    <2>3. Last' = <<"signal", s>>
      BY <2>1 DEF Last
    <2>4. PICK x \in Handled : x = s
      BY <2>2
    <2>5. Last' = <<"signal", x>> /\ Dies(<<"exit", 128 + x>>)
      BY <2>1, <2>3, <2>4
    <2>. HIDE DEF s
    <2>6. Cause(<<"exit", 128 + x>>)'
      BY <2>5 DEF Cause
    <2>7. events' \in Seq(Event)
      BY <2>1
    <2>. QED
      BY <2>1, <2>5, <2>6, <2>7, DeathKeeps
  <1>11. CASE UNCHANGED probeVars
    <2>1. UNCHANGED <<inputs, childvars, parent, report>>
      BY <1>11 DEF probeVars, inputs, childvars
    <2>2. ProbeTypeOK'
      BY <1>11 DEF probeVars, ProbeInv, ProbeTypeOK
    <2>3. ParentSound'
      BY <1>11 DEF probeVars, ProbeInv, ParentSound, Alive
    <2>. QED
      BY <2>1, <2>2, <2>3, SameChild DEF ProbeInv
  <1>. QED
    BY <1>1, <1>2, <1>3, <1>4, <1>5, <1>6, <1>7, <1>8, <1>9, <1>10, <1>11
    DEF ProbeNext

LEMMA ProbeInvariant == ProbeSpec => []ProbeInv
  <1>. QED
    BY ProbeInitKeeps, ProbeStep, PTL DEF ProbeSpec

(* Whatever the generated code does and whichever signals meet, the line the
   parent prints says what ended the child. *)
THEOREM ReportsCause == ProbeSpec => []ReportIdentifiesCause
  <1>1. ASSUME ProbeInv PROVE ReportIdentifiesCause
    <2>. SUFFICES ASSUME parent = "end"
                  PROVE  /\ report = <<"exit", 0>> => events = Through
                         /\ \A s \in Handled : report = <<"exit", 128 + s>> =>
                               Last = <<"signal", s>>
                         /\ \A code \in HostStop : report = <<"exit", code>> =>
                               Last = <<"stop", code>> /\ Signals = {}
                         /\ \A s \in Handled \cup Fatal :
                               report = <<"signal", s>> =>
                                  /\ Last = <<"signal", s>>
                                  /\ s \in Handled <=>
                                        \E k \in 1..(Len(events) - 1) :
                                            events[k] = Last
      BY <1>1 DEF ProbeInv, ReportIdentifiesCause, Through
    <2>1. CASE report \in Lines
      BY <2>1 DEF Lines
    <2>2. CASE Cause(report)
      <3>1. report = <<"exit", 0>> => events = Through
        BY <2>2, Signs DEF Cause
      <3>2. \A s \in Handled : report = <<"exit", 128 + s>> =>
               Last = <<"signal", s>>
        BY <2>2, Signs DEF Cause
      <3>3. \A code \in HostStop : report = <<"exit", code>> =>
               Last = <<"stop", code>> /\ Signals = {}
        BY <2>2, Signs DEF Cause
      <3>4. \A s \in Handled \cup Fatal : report = <<"signal", s>> =>
               /\ Last = <<"signal", s>>
               /\ s \in Handled <=>
                     \E k \in 1..(Len(events) - 1) : events[k] = Last
        BY <2>2 DEF Cause
      <3>. QED
        BY <3>1, <3>2, <3>3, <3>4
    <2>. QED
      BY <1>1, <2>1, <2>2 DEF ProbeInv, ParentSound, ChildSound
  <1>. QED
    BY <1>1, ProbeInvariant, PTL

(* The two readings of GOLDENEYE_TRY_ENTRYPOINT never disagree so that a
   probe that was asked for finds the lookup closed. *)
THEOREM LookupStaysOpen == ProbeSpec => []LookupNeverRefuses
  <1>1. ASSUME ProbeInv PROVE LookupNeverRefuses
    <2>1. parent # "end" => report = NoStatus
      BY <1>1 DEF ProbeInv, ProbeTypeOK
    <2>2. report = NoStatus \/ report \in Lines \/ report = status
      BY <1>1, <2>1 DEF ProbeInv, ParentSound
    <2>3. status \in Statuses
      BY <1>1 DEF ProbeInv, ProbeTypeOK
    <2>. QED
      BY <2>2, <2>3 DEF LookupNeverRefuses, Lines, Statuses, NoStatus
  <1>. QED
    BY <1>1, ProbeInvariant, PTL
=============================================================================
