---------------------------- MODULE GuestMemory ----------------------------
(***************************************************************************)
(* Guest addresses in the host's mapping (runtime.cpp, recomp.h).          *)
(*                                                                         *)
(* The guest's memory is one mapping of 4 GiB and 8 MiB.  There are two    *)
(* ways into it.  goldeneye_runtime_translate gives a pointer, which the   *)
(* host copies to or clears; the MEM_ macros of the generated code         *)
(* subtract the start of KSEG0 from a sign-extended address, wherever it   *)
(* lies.  read_word, write_word and their twins ask the first whether an   *)
(* address is good and then go the second way.                             *)
(*                                                                         *)
(* A cell stands for a word; no access here is smaller or misaligned.      *)
(***************************************************************************)
EXTENDS Integers

CONSTANTS
    Space, K0, K1, Low, Rdram, MaxSize,      \* as in MemoryWindows
    Values, Addresses, Sizes

ASSUME AddressAssumption ==
    /\ {Space, K0, K1, Low, Rdram, MaxSize} \subseteq Nat
    /\ Rdram > 0
    /\ Low < K0 /\ K0 + Rdram + MaxSize < K1 /\ K1 + Rdram < Space
    /\ K1 + Rdram + MaxSize < Low + Space
    /\ MaxSize <= Space
    /\ Values \subseteq Nat
    /\ Addresses \subseteq 0..(Space - 1)
    /\ Sizes \subseteq 0..MaxSize

VARIABLES
    mem,         \* the mapping
    call,        \* the last call and what it answered
    fault        \* the process touched memory that is not mapped

vars == <<mem, call, fault>>

(* kGoldenEyeHostAddressSpaceBytes *)
Host == Space + Rdram

Nowhere == -1

(* A wrong form: KSEG1 is taken for the memory behind KSEG0 as it lies. *)
OffsetUnaliased(v) ==
    IF v \in K0..(K0 + Rdram - 1) \/ v \in K1..(K1 + Rdram - 1) THEN v - K0
    ELSE IF v \in Low..(K0 - 1) THEN v - K0 + Space
    ELSE Nowhere

(* runtime_offset_for_vaddr *)
Offset(v) ==
    IF v \in K0..(K0 + Rdram - 1) THEN v - K0
    ELSE IF v \in K1..(K1 + Rdram - 1) THEN v - K1
    ELSE IF v \in Low..(K0 - 1) THEN v - K0 + Space
    ELSE Nowhere

(* A wrong form: only the first cell is tested. *)
TranslatesFirst(v, n) == Offset(v) # Nowhere

(* goldeneye_runtime_translate, for a block of n cells. *)
Translates(v, n) ==
    /\ Offset(v) # Nowhere
    /\ n <= Host
    /\ Offset(v) <= Host - n

(* The macros' offset: v - 0xFFFFFFFF80000000 in 64 bits, for a register
   that holds v sign-extended. *)
MacroOffset(v) == IF v >= K0 THEN v - K0 ELSE v - K0 + Space

(* virtual_to_physical_u32 *)
PhysicalOf(v) ==
    IF v \in K0..(K0 + Rdram - 1) THEN v - K0
    ELSE IF v \in K1..(K1 + Rdram - 1) THEN v - K1
    ELSE v

(* n cells from offset at on are set to x; the process faults when they are
   not all mapped. *)
Write(at, n, x) ==
    /\ mem' = [k \in DOMAIN mem |-> IF k >= at /\ k < at + n THEN x ELSE mem[k]]
    /\ fault' = IF at + n > Host THEN TRUE ELSE fault

Init ==
    /\ mem = [k \in 0..(Host - 1) |-> 0]
    /\ call = <<>>
    /\ fault = FALSE

-----------------------------------------------------------------------------
(* write_word, write_runtime_word and their halfword twins. *)
write_word(v, x) ==
    /\ IF Translates(v, 1) THEN Write(MacroOffset(v), 1, x)
                           ELSE UNCHANGED <<mem, fault>>
    /\ call' = <<"store", v, x>>

(* Generated code stores without asking. *)
GameStore(v, x) ==
    /\ Write(MacroOffset(v), 1, x)
    /\ call' = <<"store", v, x>>

(* read_word, read_runtime_word and their halfword twins. *)
read_word(v) ==
    /\ call' = <<"load", v,
                 IF Translates(v, 1) THEN mem[MacroOffset(v)] ELSE 0>>
    /\ UNCHANGED <<mem, fault>>

(* The memset of an allocation and the memcpy of a ROM copy. *)
FillBlock(v, n, x) ==
    /\ IF Translates(v, n) THEN Write(Offset(v), n, x)
                           ELSE UNCHANGED <<mem, fault>>
    /\ call' = <<"fill", v, n, Translates(v, n)>>

osVirtualToPhysical(v) ==
    /\ call' = <<"physical", PhysicalOf(v)>>
    /\ UNCHANGED <<mem, fault>>

Next ==
    \E v \in Addresses :
        \/ \E x \in Values : write_word(v, x) \/ GameStore(v, x)
        \/ read_word(v)
        \/ \E n \in Sizes, x \in Values : FillBlock(v, n, x)
        \/ osVirtualToPhysical(v)

Spec == Init /\ [][Next]_vars

-----------------------------------------------------------------------------
(* The windows as they lie in the mapping. *)
RamView == [c \in 0..(Rdram - 1) |-> mem[c]]
UncachedView == [c \in 0..(Rdram - 1) |-> mem[K1 - K0 + c]]
LowView == [c \in 0..(K0 - Low - 1) |-> mem[Space - (K0 - Low) + c]]

Windows == INSTANCE MemoryWindows
    WITH ram <- RamView, uncached <- UncachedView, low <- LowView

(* Both ways into the mapping, words checked by the one and stored by the
   other, and blocks that run over the end of a window, give the three
   windows of MemoryWindows: none shows through in another and each load
   returns what was last put there.  Nothing outside the mapping is touched. *)
ImplementsWindows == Windows!Spec

TypeOK ==
    /\ mem \in [0..(Host - 1) -> Nat]
    /\ fault \in BOOLEAN

(* Whatever the size asked for, no access leaves the mapping. *)
NeverFaults == ~fault
=============================================================================
