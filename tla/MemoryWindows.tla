--------------------------- MODULE MemoryWindows ---------------------------
(***************************************************************************)
(* The memory the harness promises the game and its own runtime.           *)
(*                                                                         *)
(* Three windows of the address space have memory behind them: KSEG0, the  *)
(* cached view of RDRAM; KSEG1, its uncached view; and the low mirror.     *)
(* They lie apart, with room for a block at the end of each but the low    *)
(* mirror's.                                                               *)
(* Blocks, which the host copies and clears, reach RDRAM through either    *)
(* view.  Words reach it through KSEG0 only: KSEG1 keeps words of its own, *)
(* where a real machine would show RDRAM again.  Nothing else overlaps.    *)
(***************************************************************************)
EXTENDS Integers

CONSTANTS
    Space,           \* 2^32: how many addresses there are
    K0, K1, Low,     \* where the windows begin: 0x80000000, 0xA0000000, ...
    Rdram,           \* 8 MiB: how much memory KSEG0 and KSEG1 show
    MaxSize,         \* the largest block
    Values,          \* what is stored
    Addresses,       \* the addresses that are used
    Sizes            \* the sizes of blocks that are asked for

InK0(v) == v \in K0..(K0 + Rdram - 1)
InK1(v) == v \in K1..(K1 + Rdram - 1)
InLow(v) == v \in Low..(K0 - 1)

VARIABLES
    ram,         \* RDRAM
    uncached,    \* the words of KSEG1
    low,         \* the low mirror
    call,        \* the last call: what was asked for, where, and the answer
    fault        \* the process touched memory that is not mapped

vars == <<ram, uncached, low, call, fault>>

Init ==
    /\ ram = [c \in 0..(Rdram - 1) |-> 0]
    /\ uncached = [c \in 0..(Rdram - 1) |-> 0]
    /\ low = [c \in 0..(K0 - Low - 1) |-> 0]
    /\ call = <<>>
    /\ fault = FALSE

(* f with x in the n cells from c on, as far as f has them. *)
Filled(f, c, n, x) ==
    [k \in DOMAIN f |-> IF k >= c /\ k < c + n THEN x ELSE f[k]]

-----------------------------------------------------------------------------
(* A word is stored.  Where no window is, nothing that can be seen changes. *)
StoreWord(v, x) ==
    /\ call' = <<"store", v, x>>
    /\ ram' = IF InK0(v) THEN Filled(ram, v - K0, 1, x) ELSE ram
    /\ uncached' = IF InK1(v) THEN Filled(uncached, v - K1, 1, x)
                              ELSE uncached
    /\ low' = IF InLow(v) THEN Filled(low, v - Low, 1, x) ELSE low
    /\ UNCHANGED fault

(* A word is read: the last one stored there, or 0 outside the windows. *)
LoadWord(v) ==
    /\ call' = <<"load", v,
                 IF InK0(v) THEN ram[v - K0]
                 ELSE IF InK1(v) THEN uncached[v - K1]
                 ELSE IF InLow(v) THEN low[v - Low]
                 ELSE 0>>
    /\ UNCHANGED <<ram, uncached, low, fault>>

(* A block of n cells is filled, if its first cell is in a window.  It may
   run over the window's end: the low mirror, at the end of the mapping, has
   only the size of RDRAM behind it. *)
FillBlock(v, n, x) ==
    LET inside == \/ InK0(v) \/ InK1(v)
                  \/ InLow(v) /\ v + n <= K0 + Rdram
    IN
    /\ call' = <<"fill", v, n, inside>>
    /\ ram' = IF InK0(v) THEN Filled(ram, v - K0, n, x)
              ELSE IF InK1(v) THEN Filled(ram, v - K1, n, x)
              ELSE ram
    /\ low' = IF InLow(v) /\ inside THEN Filled(low, v - Low, n, x) ELSE low
    /\ UNCHANGED <<uncached, fault>>

(* The address on the bus: both views of a cell have the same. *)
Physical(v) ==
    /\ call' = <<"physical", IF InK0(v) THEN v - K0
                             ELSE IF InK1(v) THEN v - K1
                             ELSE v>>
    /\ UNCHANGED <<ram, uncached, low, fault>>

Next ==
    \E v \in Addresses :
        \/ \E x \in Values : StoreWord(v, x)
        \/ LoadWord(v)
        \/ \E n \in Sizes, x \in Values : FillBlock(v, n, x)
        \/ Physical(v)

Spec == Init /\ [][Next]_vars
=============================================================================
