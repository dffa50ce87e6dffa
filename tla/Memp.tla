-------------------------------- MODULE Memp --------------------------------
(***************************************************************************)
(* The memory pools: mempAllocBytesInBank and mempAddEntryOfSizeToBank     *)
(* (stubs.cpp), which replace the game's own functions but keep their      *)
(* state, the pool table g_mempPools, in guest memory.  When neither the   *)
(* requested bank nor bank 6 has room, memory is taken from a host         *)
(* scratch region that only grows.                                         *)
(*                                                                         *)
(* Addresses are unsigned words that wrap at Wrap (2^32 in the code) and   *)
(* blocks are rounded up to Align (16).  The pools themselves are set up   *)
(* by generated game code, here the action SetBank.                        *)
(***************************************************************************)
EXTENDS Integers, FiniteSets

CONSTANTS
    Align,          \* the granule of align16
    Wrap,           \* one past the largest address
    Bank,           \* the banks of the pool table
    Fallback,       \* bank 6
    NoBank,         \* a bank number outside the table
    Start, End,     \* Start[b], End[b]: the region the game gives bank b
    ScratchStart,   \* where the host scratch region starts
    ScratchLimit,   \* and what it stays below
    Translates(_, _),  \* whether goldeneye_runtime_translate accepts an
                       \* address and a size
    AllocSizes,     \* sizes the game allocates
    ResizeSizes,    \* sizes it resizes to
    Pointers,       \* addresses it passes to a resize
    MaxBlocks       \* bound: blocks alive at once

Addr == 0..(Wrap - 1)

Scratch == "scratch"

ASSUME MempAssumption ==
    /\ Align \in Nat \ {0} /\ Wrap \in Nat /\ Wrap % Align = 0
    /\ Fallback \in Bank /\ NoBank \notin Bank /\ Scratch \notin Bank
    /\ Start \in [Bank -> Nat] /\ End \in [Bank -> Nat]
    /\ \A b \in Bank : 0 < Start[b] /\ Start[b] < End[b] /\ End[b] + Align <= Wrap
    /\ ScratchStart \in Nat /\ ScratchLimit \in Nat
    /\ ScratchStart % Align = 0
    /\ 0 < ScratchStart /\ ScratchStart < ScratchLimit
    /\ ScratchLimit + Align <= Wrap
    /\ AllocSizes \subseteq Addr /\ ResizeSizes \subseteq Addr
    /\ Pointers \subseteq Addr
    /\ MaxBlocks \in Nat

VARIABLES
    pool,       \* pool[b]: start, pos, end and prevpos of bank b
    cursor,     \* g_host_memp_cursor
    backed,     \* addresses some record of the resource table covers
    r2,         \* the result of the last call
    blocks      \* history: what the game holds; from, where it was taken,
                \* lo and hi, what the allocator set aside for it, size, what
                \* it was last granted there, told, what it was told it has

vars == <<pool, cursor, backed, r2, blocks>>

ZeroPool == [start |-> 0, pos |-> 0, end |-> 0, prevpos |-> 0]

AlignUp(v) == LET s == (v + Align - 1) % Wrap IN s - (s % Align)

(* A wrong form: the end is rounded down. *)
EndOfDown(a, n) == LET s == (a + n) % Wrap IN s - (s % Align)

(* Where a block of n bytes at address a ends. *)
EndOf(a, n) == AlignUp((a + n) % Wrap)

Usable(p) ==
    /\ p.start # 0 /\ p.pos # 0 /\ p.end # 0
    /\ p.start <= p.pos /\ p.pos < p.end

Covered(a, n) == IF a = 0 THEN {} ELSE {x \in Addr : a <= x /\ x < a + n}

Init ==
    /\ pool = [b \in Bank |-> ZeroPool]
    /\ cursor = ScratchStart
    /\ backed = {}
    /\ r2 = 0
    /\ blocks = {}

-----------------------------------------------------------------------------
(* The game sets a bank up, or empties it at a level change: generated
   code, not replaced by the port. *)
SetBank(b) ==
    /\ pool' = [pool EXCEPT ![b] = [start |-> Start[b], pos |-> Start[b],
                                    end |-> End[b], prevpos |-> 0]]
    /\ blocks' = {k \in blocks : k.from # b}
    /\ UNCHANGED <<cursor, backed, r2>>

NewBlock(from, lo, hi, n) ==
    [from |-> from, lo |-> lo, hi |-> hi, size |-> n, told |-> n]

(* A wrong form: the end of the pool is not looked at. *)
PoolFitsUnbounded(b, n) ==
    LET p == pool[b]
        a == AlignUp(p.pos)
    IN /\ Usable(p) /\ n # 0
       /\ EndOf(a, n) > a
       /\ Translates(a, n)

PoolFits(b, n) ==
    LET p == pool[b]
        a == AlignUp(p.pos)
    IN /\ Usable(p) /\ n # 0
       /\ EndOf(a, n) > a /\ EndOf(a, n) <= p.end
       /\ Translates(a, n)

(* A wrong form: the last block is remembered by the mark before it was
   rounded up. *)
AllocateUnaligned(b, n) ==
    LET a == AlignUp(pool[b].pos)
    IN /\ pool' = [pool EXCEPT ![b].prevpos = pool[b].pos,
                               ![b].pos = EndOf(a, n)]
       /\ backed' = backed \cup Covered(a, n)
       /\ blocks' = blocks \cup {NewBlock(b, a, EndOf(a, n), n)}
       /\ r2' = a
       /\ UNCHANGED cursor

AllocateFromPool(b, n) ==
    LET a == AlignUp(pool[b].pos)
    IN /\ pool' = [pool EXCEPT ![b].prevpos = a, ![b].pos = EndOf(a, n)]
       /\ backed' = backed \cup Covered(a, n)
       /\ blocks' = blocks \cup {NewBlock(b, a, EndOf(a, n), n)}
       /\ r2' = a
       /\ UNCHANGED cursor

ScratchFits(n) ==
    LET a == AlignUp(cursor)
    IN /\ n # 0
       /\ EndOf(a, n) > a /\ EndOf(a, n) < ScratchLimit
       /\ Translates(a, n)

AllocateFromScratch(n) ==
    LET a == AlignUp(cursor)
    IN /\ cursor' = EndOf(a, n)
       /\ backed' = backed \cup Covered(a, n)
       /\ blocks' = blocks \cup {NewBlock(Scratch, a, EndOf(a, n), n)}
       /\ r2' = a
       /\ UNCHANGED pool

InRequested(b, n) == b \in Bank /\ PoolFits(b, n)

InFallback(b, n) ==
    ~InRequested(b, n) /\ b # Fallback /\ PoolFits(Fallback, n)

mempAllocBytesInBank(b, n) ==
    /\ Cardinality(blocks) < MaxBlocks
    /\ \/ InRequested(b, n) /\ AllocateFromPool(b, n)
       \/ InFallback(b, n) /\ AllocateFromPool(Fallback, n)
       \/ /\ ~InRequested(b, n) /\ ~InFallback(b, n)
          /\ ScratchFits(n)
          /\ AllocateFromScratch(n)
       \/ /\ ~InRequested(b, n) /\ ~InFallback(b, n) /\ ~ScratchFits(n)
          /\ r2' = 0
          /\ UNCHANGED <<pool, cursor, backed, blocks>>

(* A pointer that is bank 6's last block moves the call to bank 6, whatever
   bank was named; needmemallocation is read but decides nothing. *)
ResizedBank(ptr, b) == IF ptr = pool[Fallback].prevpos THEN Fallback ELSE b

InPool(ptr, n, b) ==
    /\ b \in Bank
    /\ Usable(pool[b])
    /\ ptr = pool[b].prevpos
    /\ n # 0
    /\ EndOf(ptr, n) >= ptr /\ EndOf(ptr, n) <= pool[b].end

ResizeLast(ptr, n, b) ==
    /\ pool' = [pool EXCEPT ![b].pos = EndOf(ptr, n)]
    /\ backed' = backed \cup Covered(ptr, n)
    /\ blocks' = {IF k.from = b /\ k.lo = ptr
                  THEN [k EXCEPT !.hi = EndOf(ptr, n), !.size = n, !.told = n]
                  ELSE k : k \in blocks}
    /\ r2' = 1
    /\ UNCHANGED cursor

(* Any other address that some record covers: the new size is recorded and
   granted, and no pool is touched. *)
ResizeRecord(ptr, n) ==
    /\ backed' = backed \cup Covered(ptr, n)
    /\ blocks' = {IF k.lo = ptr THEN [k EXCEPT !.told = n] ELSE k : k \in blocks}
    /\ r2' = 1
    /\ UNCHANGED <<pool, cursor>>

(* A wrong form: a refused resize answers -1. *)
ResizeAnswersMinusOne(ptr, n, b) ==
    LET rb == ResizedBank(ptr, b)
    IN \/ InPool(ptr, n, rb) /\ ResizeLast(ptr, n, rb)
       \/ ~InPool(ptr, n, rb) /\ n # 0 /\ ptr \in backed /\ ResizeRecord(ptr, n)
       \/ /\ ~InPool(ptr, n, rb) /\ (n = 0 \/ ptr \notin backed)
          /\ r2' = -1
          /\ UNCHANGED <<pool, cursor, backed, blocks>>

mempAddEntryOfSizeToBank(ptr, n, b) ==
    LET rb == ResizedBank(ptr, b)
    IN \/ InPool(ptr, n, rb) /\ ResizeLast(ptr, n, rb)
       \/ ~InPool(ptr, n, rb) /\ n # 0 /\ ptr \in backed /\ ResizeRecord(ptr, n)
       \/ /\ ~InPool(ptr, n, rb) /\ (n = 0 \/ ptr \notin backed)
          /\ r2' = 0
          /\ UNCHANGED <<pool, cursor, backed, blocks>>

Next ==
    \/ \E b \in Bank : SetBank(b)
    \/ \E b \in Bank \cup {NoBank}, n \in AllocSizes : mempAllocBytesInBank(b, n)
    \/ \E ptr \in Pointers, n \in ResizeSizes, b \in Bank \cup {NoBank} :
          mempAddEntryOfSizeToBank(ptr, n, b)

Spec == Init /\ [][Next]_vars

-----------------------------------------------------------------------------
(* The contract of the calls that resize: no null pointer, and no size that
   wraps the address space.  Allocations need no such contract. *)
ResizeContract ==
    /\ 0 \notin Pointers
    /\ \A ptr \in Pointers, n \in ResizeSizes : ptr + n + Align <= Wrap

TypeOK ==
    /\ pool \in [Bank -> [start : Addr, pos : Addr, end : Addr, prevpos : Addr]]
    /\ cursor \in Addr
    /\ backed \subseteq Addr
    /\ r2 \in Addr
    /\ blocks \subseteq [from : Bank \cup {Scratch}, lo : Addr, hi : Addr,
                          size : Addr, told : Addr]

(* Where the blocks of one source end. *)
Mark(f) == IF f = Scratch THEN cursor ELSE pool[f].pos

Bottom(f) == IF f = Scratch THEN ScratchStart ELSE pool[f].start

(* Every bank stays inside the region the game gave it. *)
PoolsInBounds ==
    \A b \in Bank :
        pool[b].start <= pool[b].pos /\ pool[b].pos <= pool[b].end

(* What the allocator set aside: each block covers the size it granted,
   lies between the bottom and the mark of its source, and two blocks of
   one source never overlap, after any mix of allocations, resizes and
   bank resets. *)
BlocksDisjoint ==
    /\ \A k \in blocks : /\ k.lo + k.size <= k.hi
                         /\ Bottom(k.from) <= k.lo
                         /\ k.hi <= Mark(k.from)
    /\ \A k, l \in blocks : k # l /\ k.from = l.from =>
                             k.hi <= l.lo \/ l.hi <= k.lo

(* Only the last block of a bank can be resized in place: prevpos, when it
   is set, is the block under the mark. *)
LastBlockOnTop ==
    \A b \in Bank : pool[b].prevpos # 0 =>
        \E k \in blocks : /\ k.from = b /\ k.lo = pool[b].prevpos
                         /\ k.hi = pool[b].pos

(* docs/plans/2026-06-18-next-successful-stage.md:334-335, of a resize:
   "Verify ptr equals pool.prevpos", then "Resize pool.pos based on
   newsize": a size the game was told is one the pool set aside. *)
ToldFits == \A k \in blocks : k.lo + k.told <= k.hi
=============================================================================
