# A verification project for the GoldenEye native boot harness

The repository builds a host program around statically recompiled N64 code: the C++
under `ports/goldeneye/` gives the generated game code a memory, message queues,
threads, memory pools, a clock, a display-list consumer and a guarded way to run at all.
The generated code itself is not in the repository. These modules model the host's code;
the generated code is the environment, which may make any call in any order.

All line numbers below are of files under `ports/goldeneye/`.

## The system

The program is one process and one thread, plus one forked child. A call of the runtime
runs to its end before the game continues, so in the models a call is one step. What
makes it hard is not preemption but that state is spread: queue headers, message
structures, pool tables and frame counters live in guest memory, where the game writes
too; counters, cursors and records live in host globals; two files write the same
structures; and any sequence of calls is possible.

| part | state | operations | meets |
|---|---|---|---|
| message queues (`runtime/libultra_stubs.cpp`, `runtime/stubs.cpp:65-88`) | headers and buffers in guest memory; counters in `g_diag` | create, send, receive, set event, completion of a DMA, `enqueue_runtime_message` | everything that posts |
| RSP task loop (`stubs.cpp:460-502`, `libultra_stubs.cpp:302-362`, `runtime.cpp:369-399`) | `gfxFrameMsgQ`, the type word of done messages, two counters, the exit status | submit a task, receive a done message, stop with 152 | queues, renderer |
| memory pools (`stubs.cpp:167-323`, `runtime.cpp:337-367`) | `g_mempPools` in guest memory, `g_host_memp_cursor` | allocate, resize | resource table |
| threads (`libultra_stubs.cpp:24-35,160-197,406-440`) | the vector `g_threads` | create, start, stop, dispatch | lookup, probe |
| display-list scan (`renderer.cpp`) | the recursion, the segment table, the result | walk, probe a branch, classify a command | resource table |
| guarded probe (`app/main.cpp`) | child process, handlers, alarm | skip, fork, wait; return, fault, time out, stop | lookup, threads |
| resource table (`runtime.cpp:253-289`) | the vector `g_resources` | record, find | pools, copies, renderer |
| frame clock (`stubs.cpp:398-458`, `libultra_stubs.cpp:57-64`) | ten words in guest memory, host counters | advance a frame, stop with 150, tell the count | csegment restore |
| address translation (`runtime.cpp:54-70,171-187`, `recomp.h`) | the host's mapping | translate, store, load, fill | everything |
| initialisation and copies (`runtime.cpp:71-150,189-218,446-511`) | ROM bytes, section loads, tallies | load, copy, restore the csegment | resource table |
| decompression bridge (`stubs.cpp`) | five pointers in guest memory | decompress, or answer in its place | resource table |
| 64-bit arithmetic (`libultra_stubs.cpp`) | none | multiply, divide, remainder | clock |
| constant stubs, video, printing, scripts | hardly any | answer, print, build | |

What makes each part correct:

* queues: what is posted comes out once and in order; loss happens only when a queue is
  full and `osSendMesg` tells; the diagnostics agree with the queues.
* RSP tasks: no done message disappears unaccounted; the process stops exactly at the
  limit and never when asked to continue; a queued message gets out.
* pools: blocks never overlap, pools stay in their regions, only the last block grows in
  place.
* threads: each runs at most once, only those selected, within the limit; the three
  counts of runs agree; the loop never decides by a record it no longer owns.
* scan: it ends, keeps its limits exactly, walks no list inside itself, walks what it
  reports as scheduled, and its report adds up.
* probe: main comes to its end whatever the generated code does, and the reported status
  identifies what happened.
* resource table: what it says of an address is true of what is there; the reports
  printed from three places agree.
* frame clock: the ten words agree with each other soon after anything set them apart;
  guest frames and host frames stay in step; the limit is met, exactly.
* counter and arithmetic: a loop that waits ends, neither early nor late; the helpers
  compute.
* addresses: the host's pointers and the game's macros see the same memory, and nothing
  checked leaves the mapping.

The hazards behind these are listed, with their lines, in `PROJECT.json`.

## The modules

| module | models | composed of |
|---|---|---|
| `MesgRing` | the ring buffer as pure operators: `Put`, `Take`, `Contents` | |
| `LossyFifo` | what queues promise, with no ring: an abstract specification | |
| `MesgQueue` | the queue calls and the counters | extends `MesgRing`, refines `LossyFifo` |
| `RspTask` | the task loop between submission and receive | extends `MesgRing` |
| `Memp` | the pools and the scratch region | |
| `Threads` | the records, the dispatch loop, the vector's storage | |
| `DisplayListScan` | one task's walk | |
| `GuardedProbe` | parent, child, signals, alarm | |
| `FrameClock` | the frame pump, its limit and the restore under it | |
| `WidePairs` | 64-bit numbers in pairs of registers, as pure operators | |
| `HostTime` | the counter, loops that wait on it, the four integer helpers | extends `WidePairs` |
| `MemoryWindows` | three windows of memory: an abstract specification | |
| `GuestMemory` | the translation and the macros over one mapping | refines `MemoryWindows` |
| `ProvenanceMap` | each address and the last thing noted about it: an abstract specification | |
| `Resources` | initialisation, every writer that records, and the search | refines `ProvenanceMap` |
| `MC...` | the values TLC uses | |
| `Messages_proofs` | theorems of `MesgQueue` and `RspTask`, lemmas about `MesgRing` | extends them |
| `Probe_proofs` | theorems of `Threads` and `GuardedProbe` | extends both |
| `Clocks_proofs` | theorems of `FrameClock` and `HostTime` | extends both |
| `Memp_proofs`, `DisplayListScan_proofs`, `GuestMemory_proofs`, `Resources_proofs` | the theorems of the module they are named after | extend it |
| `SumTheorems` | lemmas about sums over finite sets | |

Two modules whose theorems share a file have state and operators of different names: the
specifications are `Spec` and `TaskSpec`, `Spec` and `ProbeSpec`, `Spec` and `TimeSpec`,
with their type invariants and next-state relations named the same way.

### How state and actions correspond to the code

**MesgRing, MesgQueue.** `ring[q]` is the header at address `q` (`valid` +0x08, `first`
+0x0C, `count` +0x10, `buf` whether +0x14 is non-zero) and its buffer. Every call of the
runtime is an action of the same name; `ReceiveEmpty` and `ReceivePending` are the two
halves of `osRecvMesg_recomp`, and `Refuse` is every early return before a queue is
reached (bad address, negative count, a transfer that failed). The send is written twice
in the code and twice here: `Put` and `SendQueueMessage` are `send_queue_message`,
`EnqueueRefuses`, `EnqueueSlot`, `Enqueue` and the action `enqueue_runtime_message` its
twin in `stubs.cpp`, which tests, chooses the slot and counts by itself. The twin does
not ask `queue_ready`; since the words of a header it cannot read are 0, it refuses
those all the same. Both expect a header that lies in one window. `call` is what the
caller saw; `discarded` and `synthetic` are history. A buffer word is a message or
`Word`, memory's leftovers; no property can tell leftovers apart.

**RspTask.** `done` holds the structures whose type word reads `OS_SC_DONE_MSG` now; the
game may rewrite one at any time (`ReuseStructure`), since `osRecvMesg_recomp` reads the
word at delivery. It may also post anything to the queue itself, its done structures
included (`PostOther`); whatever reads done when it is taken out counts as a delivery.
`reposted`, `lost` and `retyped` are history. The walk of the display list between
counting a task and posting its message changes nothing here and is `DisplayListScan`'s.

**Memp.** `pool[b]` is the record of bank `b` in `g_mempPools`. Addresses wrap at `Wrap`
(2^32 in the code), `Align` is 16. `backed` is the set of addresses that some record
covers. `blocks` is history: what the game holds, what was set aside for it, what it was
granted, and what it was told. `Translates(a, n)` is `goldeneye_runtime_translate` of a
whole span. `SetBank` is the game's own set-up of a bank, which is generated code.
`mempAddEntryOfSizeToBank` keeps the order of the code: bank 6 first when the pointer is
bank 6's last block, then the pool, then the resource table, then failure.

**Threads.** `records` is `g_threads` in order, `capacity` the vector's, which doubles
as libstdc++'s does. The loop is a small program (`pc`, `at`, `last`): `last` is the end
iterator, taken when the loop starts. `stale` says that an append moved the records
while the loop's iterator points into the old storage; a decision made then is
`ReadFreed`, and what follows is undefined. `mode` is the loop's arguments: which id,
how many runs.

**DisplayListScan.** The recursion of `scan_display_list` is the sequence `stack`;
`call` is a call whose checks are still to come. A command is its opcode class, its
operand and whether its other bits are well formed; guest memory is a window of
commands, and an address outside does not translate. `Refuse` and `Enter` are the head
of the function, `StopAtLimit`, `StopAtEnd`, `StopOnAbort` and `WalkCommand` its loop,
in the order in which the code tests, `CallBranch` and `Return` the loop over the
scheduled branches. `result` holds the counters that stand in some relation; the
previews, the histogram and the counters of single opcodes are left out.

**GuardedProbe.** `parent` and `child` are program counters. `Deliver` follows
`sigaction` with `SA_RESETHAND` and an empty mask: the handler of a signal is gone after
its first use, another signal may interrupt it, and the handler that started last ends
the process. `armed` is the alarm. `events` is history. `Wait` ends only when the child
is dead: the code would also go on when `waitpid` fails, but the parent has no handlers
that could interrupt it, so it fails only once there is no child. That no child is left
behind is therefore an assumption of the model and no property of a run.

**FrameClock.** `words` are the ten words from 0x80048490 on, by address; `hostTicks`
and `hostCount` the two host globals of the pump. `waitForNextFrame` is one call of the
pump with the limit's test at its end. `initTLBPrepareContext(n)` is the restore that
writes the first `n` of these words: 10 for one that succeeds, fewer for a read that
breaks off. Of the ten words the model lets the game write only the delay
(`SetFrameDelay`), the one the pump reads as a request. The frame words are kept as
integers, since 2^32 frames at 60 a second are years; the host's count does wrap.

**HostTime.** `counter` is `g_host_counter_ticks`; `r2`, `r3` the answer registers.
`BeginWait` and `Poll` are a wait loop of generated code, which is what the counter is
for. `Compute` is any of the four helpers on stored numbers or on the last answer;
`Trap` is the quotient that has no 64-bit value, where `__ll_div_recomp` traps on
x86-64.

**GuestMemory.** One cell of `mem` is a word of the 4 GiB + 8 MiB mapping. `Offset` is
`runtime_offset_for_vaddr`, `MacroOffset` what `MEM_W` and its kind compute.
`write_word` asks the first and goes the second way, as the code does; `GameStore` does
not ask; `FillBlock` is every `memset` and `memcpy` of a translated block.

**Resources.** `mem` says of every cell what it is made of: zeroes, a word, ROM bytes
from an address, ELF bytes, something inflated. `LoadRom`, `LoadSection` and
`PreloadCdata` are `goldeneye_runtime_init` step by step, then any calls: `StartDma`
(both directions copy), `RestoreCsegment(k)`, `Allocate`, the two ways a resize is
granted, decompression with and without the bridge, and the game's own stores. `Find` is
the search from the table's end; every caller asks for one byte. `stale` is history: the
addresses changed behind their newest record. Where a pool takes its block from is
`Memp`'s; a block over a window's end is `GuestMemory`'s.

## What the runs check

| run | instance | shows |
|---|---|---|
| `queues` | 2 queues, 0..2 slots, 2 words, 6 calls | `CountersAddUp`; `ImplementsFifo`, the refinement of `LossyFifo`, with the results callers see |
| `rsp_tasks` | 2 structures, 2 slots, limits unset, 2, 3 and out of range, 4 tasks, 2 structures posted by the game | `TasksAccounted`, `StopsExactlyAtLimit`, `QueueDrains` |
| `rsp_limit_told` | the same, limits unset and 1, 3 tasks, 1 such post | finding 1 |
| `pools` | 26 addresses, granule 2, 2 banks and scratch, 4 blocks | `PoolsInBounds`, `BlocksDisjoint`, `LastBlockOnTop` |
| `pools_told` | the same, 3 blocks | finding 2 |
| `threads` | id 3 once with 5 records, and any id twice with 3; 3 starts, 2 game structures | `DispatchesAgree`, `NeverReadsFreed`, `DispatchOnce`, `LoopFinishes` |
| `list_walk` | every window of 5 commands out of 8 under 4 settings, and of 4 commands out of 14 under 2 | the walk's limits, its structure, its counters and its end |
| `probe` | all settings, 3 time-outs, 5 signals with handlers and one without, 3 stops | the report and the end |
| `frame_clock` | counts of 32, frames of 7, 3 delays, 2 ELF images, 4 limits, 5 frames, 2 restores | `SettlesInTwo`, `FramesBracketed`, `NoDriftButByRestore`, `StopsExactlyAtLimit`, `LimitReached` |
| `host_time` | words of 8 values, steps of 3, 4 waits, 9 numbers | `TimeIsKept`, `WaitEnds`, `ArithmeticAgrees` |
| `guest_memory` | 19 addresses, RDRAM of 2, blocks of 0, 2 and 4, 2 values | `ImplementsWindows`, `NeverFaults` |
| `resources` | 5 cells seen twice and 2 once, 3 sections, 4 ROM lengths, 3 calls after the start | `AnswersTrue`, `ReportsAgree`, `ImplementsMap` |

Type correctness is an invariant of its own in the runs of `MesgQueue`, `RspTask`,
`Memp`, `FrameClock` and `Resources`, and the first conjunct of `DispatchesAgree`,
`StackSound`, `ReportIdentifiesCause` and `ArithmeticAgrees`; `GuestMemory`'s is the one
its theorem uses.

**What properties leave out.** `AnswersTrue` says nothing of the addresses in `stale`:
what the game stores, what a transfer to the other view of the same memory changes, and
what a broken-off restore wrote are in memory while the records still name what was
there before. `ArithmeticAgrees` says nothing of the one quotient that traps.
`BlocksDisjoint` speaks of blocks of one source, since where the game puts its pools is
not in the repository, and the properties of `Memp` hold under `ResizeContract`.

Deadlock is not checked where the system stops or where the bound on calls stops it: in
the runs whose cfg says so.

**Why the bounds are enough.** Six calls fill and empty a two-slot ring past its end and
create it again in between. Four tasks exceed the queue's two slots and every limit in
use but the out-of-range one. Two structures posted by the game are enough to put one in
front of a task's and one behind, and to reach a limit before the tasks do. The 26
addresses of `Memp` hold sizes that fit, fail, fill a pool exactly, overflow into bank 6
and into scratch, run out of the mapping's end, and wrap. Five thread records make the
vector grow from 1 to 2, 4 and 8: the fifth, created by the thread that the loop runs,
frees the storage while the loop has records left to look at. Five cells of a list
window hold a list, a branch back to its start, into its middle, to two lists behind it
and out of the window, and one whose target depends on a segment's base; every limit is
reached in some windows and not in others, the depth limits 1 and 2 included. In
`DisplayListScan` the probe's thresholds are scaled from 32, 6 and 2 to 4, 3 and 0, and
the limits from 8192, 1024 and 8: the settings' own minima (16 commands) would need
windows of more cells than TLC can enumerate. Five frames of 7 counts wrap a count of
32, and leave two frames after each of two restores. A word of 8 values and a step of 3
wrap in the middle of a loop and end on every remainder; the counter itself comes to the
end of its 64 values. In `GuestMemory` the largest block runs over a window's end, and
KSEG1 begins right behind where a block of KSEG0 can reach. In `Resources` three calls
are a write, a write over part of it or through the other view, and a resize or restore
over both; the initialisation before them adds up to three copies of its own.

**Fairness.** `RspTask` assumes that the game's loop keeps receiving, which is how the
generated scheduler's loop is built and what the task limit relies on; nothing is
assumed of submissions. `FrameClock` assumes that the game's main loop comes back to the
pump: `waitForNextFrame` stands in for the loop's own wait. `HostTime` assumes that a
loop that waits goes on asking, which is all it does. `Threads` assumes only that the
loop's own statements are executed: a thread may run for ever. The walk needs no
fairness: `WalkEnds` says that every step lessens a number that is never negative.
`GuardedProbe` assumes that parent, handlers and the last statements of the child go on
and that an alarm that is set rings; nothing is assumed of the generated code. That a
handler's printing ends is part of that assumption; `fprintf` and `dladdr` in a handler
do not guarantee it.

## Findings

1. `README.md:99` of the repository says `GOLDENEYE_RSP_TASK_LIMIT` "controls how many
   generated display-list tasks the host shim consumes before stopping". The code
   compares the limit with the done messages delivered (`runtime.cpp:396-399`);
   submissions are not limited. Run `rsp_limit_told`.
2. The plan in `docs/plans/2026-06-18-next-successful-stage.md:334-335` verifies that a
   resized block is `prevpos`. The code also grants the resize when some record covers
   the pointer (`stubs.cpp:303-314`) and sets nothing aside. Run `pools_told`.

Met while modelling, and findings of no run:

* After a thread's entry returns, the dispatch loop prints `record.id`
  (`libultra_stubs.cpp:191`) through a reference that the thread's own `osCreateThread`
  calls may have invalidated. With one dispatch nothing is decided by freed storage
  (`NeverReadsFreed`); with two something would be, and the action `ReadFreed` is where
  it happens.
* The record of an allocation or of a resize in a pool has source 0 and, being the
  newest, hides the ROM address that an earlier copy noted for the same bytes.
  `Resources` says so: `Tells` asks nothing of a resize.
* A word written through KSEG1 by the game is not the word that a block copied to KSEG1
  by the host lands on: `MemoryWindows` states the two views as they are.

## What is proved

Every invariant and every action property that a passing run checks is also a theorem,
and so are the three refinements, for all values of the constants that the named
assumptions of the modules allow. What makes them inductive is told here by proof
module; `PROJECT.json` names each theorem with its property. No theorem is about a
bounded instance: windows, rings, words, tables, sets of threads and numbers of calls
are arbitrary.

`SumTheorems` holds what several reports need: that a sum over a finite set is a natural
number (`SumNat`), that changing one summand or adding one moves it by exactly that much
(`SumChange`, `SumOneMore`, `SumZero`), and the same for functions. The library's sum is
a fold, defined by recursion over sets with a choice in each step, and its induction
theorems take a predicate as a parameter, which the provers cannot instantiate. So the
lemmas argue by the smallest counterexample: the subsets for which a fact fails are a
set, `SmallestSet` (a strict subset ordering on finite sets is well founded) gives a
least one, and taking one element away contradicts it.

**Messages_proofs.** Lemmas about the operators, for rings of any size: creating,
putting and taking keep a ring well formed (`NewRingOK`, `PutOK`, `TakeOK`); a put
appends to the contents when there is room (`PutAppends`); a take gives the head and
leaves the tail (`TakeRemovesHead`). The one arithmetic fact beneath them is `ModWrap`.
`WritersAgree`: on a well-formed ring the two copies of the send refuse the same and
leave the same ring, so what is proved of one holds for both (`TwinIsSend`).
`TypeCorrect`: `TypeOK` is inductive by the ring lemmas. `RingsImplementFifo`: under the
mapping `fifo <- Contents`, `cap <- Capacity`, each call maps to the abstract call or to
a refusal. `DiagnosticsAddUp`: `CountersAddUp` is inductive with `TypeOK`; each call
replaces one ring, so what is pending moves with that ring's header (`PendingMoves`). It
needs that there are finitely many queues (`QueueAssumption`). `TaskTypeCorrect`,
`TasksStayAccounted` and `StopIsExact` are of the task loop. Neither of the last two is
inductive alone. Their invariant adds that a slot in use holds something posted, a done
structure or the game's message, never a leftover, so that a message taken is either
counted, retyped or the game's; and the accounting step needs that appending or removing
a message changes the set of waiting places by exactly one (`PlacesAppend`,
`PlacesTail`).

**Memp_proofs.** `TypeCorrect`, `PoolsStayInBounds`, `BlocksStayDisjoint` and
`LastBlockStaysOnTop`, each under `ResizeContract`: no null pointer and no size that
wraps is resized to. Allocations need no such contract. `MempInv` adds to the three
properties that a bank is unset or in its region, the scratch cursor below its limit,
and that every block holds an address of its own, which makes the block at `prevpos` the
only one there. The step that matters is `EndHasNotWrapped`: the code has no test for
overflow, only `next <= allocation`; from an aligned start an end that is larger cannot
have wrapped, because both roundings lose less than a granule.

**Probe_proofs.** `DispatchesCorrect`, `OneEntryIsSafe` and `RunsOnce` are of the
dispatch loop, for any number of threads, records and dispatches. `ThreadsInv` adds to
`DispatchesAgree` that storage can be stale only once a thread ran or runs
(`LoopSound`): a loop allowed one dispatch has then used it up, so it stops before it
looks at a record again. That is why the probe's loop is safe, and why one allowed two
is not. `ReportsCause` and `LookupStaysOpen` are of parent and child.
`ReportIdentifiesCause` speaks of a finished parent, so `ProbeInv` says of a living
child what befell it (`ChildSound`): only signals with a handler, each handler gone
exactly when its signal came, the latest one running; and of a dead one that its status
is the cause of its death (`Cause`). An exit status above 128 stands for one signal only
because the host's own statuses (140, 150, 152) are not 128 plus a handled signal:
`ProbeAssumption` says so, and the numbers in the code satisfy it.

**Clocks_proofs.** Of the frame pump: `TypeCorrect`, `WordsSettle`,
`FramesStayBracketed`, `StopIsExact` and `DriftOnlyByRestore`. The invariants are
inductive together; the last one is arithmetic modulo the count's width
(`SameDistance`). Of the counter: `TimeStaysKept` and `ArithmeticCorrect`, for every
even width of word. `WaitSound` relates the loop to the counter: the word it reads is
the one it began with plus what went by, modulo the word, and less than its target went
by, unless it has not asked yet; since a target and one step fit in a word, the
difference of two words is the time itself (`PollTells`). For the arithmetic, a pair
taken apart and put together is the number (`RoundTrip`), a product or quotient fed back
is read again as itself (`SignedAgain`), and division is determined by its law
(`DivisionUnique`, `QuotientLaw`). `HostTimeAssumption` says that the value for "no loop
waits" is not itself a loop.

**GuestMemory_proofs.** `AccessesInside` and `MappingShowsWindows`. The mapping's three
pieces are shown to be disjoint images of the windows (`BlockShows`, `WordShows`), for
every layout that `AddressAssumption` allows: the windows lie apart by the largest
block.

**Resources_proofs.** `TypeCorrect`, `TableIsMap`, `AnswersAreTrue` and
`ReportsStayAgreed`. `FindAppended` says what one record changes in the search's
answers; a call that records twice, as the preload does, notes one block twice and is
one step of the map (`PreloadAnswers`). `AnswersTrue` is inductive with `TypeOK` because
a writer either records exactly what it wrote (`WriteRecorded`) or leaves all it touched
in `stale` (`WriteUnrecorded`). `BlockAssumption` says that no block covers one cell
through two views. `ReportsAgree` needs `Reports`, which also says of the states before
the game runs that nothing was called and the preload is still to come, and that the
preload's record is there exactly when its tally is.

**DisplayListScan_proofs.** `StackStaysSound`, `LimitsHold`, `WalksOnlyPlausible`,
`AbortStaysFinal`, `ReportAddsUp`, `ScheduledWalked` and `WalkTerminates`, for every
memory, root, setting and threshold. `ScanInv` says besides the first three that all
frames begin at different cells, that no list has walked more commands than the walk has
(so that a list's limit is reported only where it was reached), and that what is
scheduled or about to be called was chosen by the probe or by the settings, since the
choice is made long before the list is walked. The next two need what no check at a
branch shows by itself: that a branch judged no cycle and not too deep when it was met
is neither when it is called, or `Refuse` would judge it twice. `NewLists` says it of
every branch that waits: it leads to none of the lists above it, which are the same ones
by then, and the depth leaves room; so a call is refused only because the walk was ended
or as the task's own list (`RefusedIs`). The report is then proved by parts: packets,
references, texture images and branches of one command each keep their own equations
(`PartsAdd`), and the sum of two reports that add up adds up (`SumAdds`). `Walked` makes
`ScheduledAreWalked` inductive: lists walked, branches that wait and a call under way
are together the branches scheduled and the task's own list. `WalkTerminates` needs no
fairness, since every step lessens `Work`: five for each command left, three for a call,
and the work of the frames, where a scheduled branch adds less than the five that its
command takes away.

Only model-checked are the five liveness properties, `QueueDrains`, `LoopFinishes`,
`ProbeEnds`, `LimitReached` and `WaitEnds`: they rest on weak fairness, whose proof
needs ENABLED, which is beyond the proof system used. The two properties of the runs
that expect a violation, `TasksWithinLimit` and `ToldFits`, are false.

## Not modelled

* Banks in the resource table, the per-section notes of the start, previews, histogram
  and all printing: they are printed and decide nothing.
* `__ll_to_d` and `__f_to_ll`: conversions to and from floating point.
* Video, SP yield and the constant stubs: one assignment each, read by nothing in
  `src/`.
* The generated inflater behind the decompression bridge: not in the repository.
  `Resources` lets it write some cells and end anywhere, or fail.
* The table of generated functions: data. What depends on it is in `GuardedProbe` and
  `Threads`.
* Scripts, build files and the toolchain patch: sequential build steps.

## Plan

1. The child of `GuardedProbe` composed with `Threads`, `RspTask` and `FrameClock`:
   which of the exits 140, 150 and 152 comes first, and that the parent reports that
   one, as one more invariant over `ProbeInv` and `ThreadsInv`.
2. The safety halves of the liveness properties as theorems: that a waiting message is
   `n` receives from the head and never moves back (`QueueDrains`), that a poll lessens
   what is left to wait (`WaitEnds`), that a call of the pump lessens what is left to
   the limit (`LimitReached`), as `WalkEnds` states it of the walk.
3. `Memp` without `ResizeContract`: what a wrapping resize can do at most.
