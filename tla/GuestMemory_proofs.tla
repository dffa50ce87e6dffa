------------------------- MODULE GuestMemory_proofs -------------------------
(***************************************************************************)
(* The mapping, for address spaces, windows and blocks of any size: no     *)
(* access that is let through leaves it, and the windows in it are those   *)
(* of MemoryWindows.                                                       *)
(***************************************************************************)
EXTENDS GuestMemory, TLAPS

IInv == TypeOK /\ NeverFaults

(* A block that translates lies inside the mapping. *)
LEMMA BlockInside ==
    ASSUME NEW v \in Addresses, NEW n \in Sizes, Translates(v, n)
    PROVE  Offset(v) \in 0..Host /\ n \in Nat /\ Offset(v) + n <= Host
  <1>1. /\ n \in Nat /\ v \in 0..(Space - 1)
        /\ {Space, K0, K1, Low, Rdram} \subseteq Nat
        /\ Host \in Nat
    BY AddressAssumption DEF Host
  <1>. QED
    BY <1>1, AddressAssumption DEF Translates, Offset, Nowhere, Host

(* So does every word the macros reach. *)
LEMMA WordInside ==
    ASSUME NEW v \in Addresses
    PROVE  MacroOffset(v) \in Nat /\ MacroOffset(v) + 1 <= Host
  BY AddressAssumption DEF MacroOffset, Host

(* A write of n cells at an offset inside the mapping keeps the invariant. *)
LEMMA WriteKeeps ==
    ASSUME IInv, NEW at \in Nat, NEW n \in Nat, NEW x \in Values,
           at + n <= Host, Write(at, n, x)
    PROVE  IInv'
  <1>1. ~(at + n > Host)
    BY AddressAssumption DEF Host
  <1>2. fault' = fault
    BY <1>1 DEF Write
  <1>3. x \in Nat
    BY AddressAssumption
  <1>4. mem' \in [0..(Host - 1) -> Nat]
    BY <1>3 DEF IInv, TypeOK, Write
  <1>. QED
    BY <1>2, <1>4 DEF IInv, TypeOK, NeverFaults

(* The invariant is inductive. *)
LEMMA StepKeeps == IInv /\ [Next]_vars => IInv'
  <1>. SUFFICES ASSUME IInv, [Next]_vars PROVE IInv'
    OBVIOUS
  <1>0. IInv /\ UNCHANGED <<mem, fault>> => IInv'
    BY DEF IInv, TypeOK, NeverFaults
  <1>1. ASSUME NEW v \in Addresses, NEW x \in Values, write_word(v, x)
        PROVE  IInv'
    BY <1>0, <1>1, WordInside, WriteKeeps DEF write_word
  <1>2. ASSUME NEW v \in Addresses, NEW x \in Values, GameStore(v, x)
        PROVE  IInv'
    BY <1>2, WordInside, WriteKeeps DEF GameStore
  <1>3. ASSUME NEW v \in Addresses, read_word(v)
        PROVE  IInv'
    BY <1>0, <1>3 DEF read_word
  <1>4. ASSUME NEW v \in Addresses, NEW n \in Sizes, NEW x \in Values,
               FillBlock(v, n, x)
        PROVE  IInv'
    BY <1>0, <1>4, BlockInside, WriteKeeps DEF FillBlock
  <1>5. ASSUME NEW v \in Addresses, osVirtualToPhysical(v)
        PROVE  IInv'
    BY <1>0, <1>5 DEF osVirtualToPhysical
  <1>6. CASE UNCHANGED vars
    BY <1>0, <1>6 DEF vars
  <1>. QED
    BY <1>1, <1>2, <1>3, <1>4, <1>5, <1>6 DEF Next

(* The invariant holds at the start. *)
LEMMA InitKeeps == Init => IInv
  <1>. SUFFICES ASSUME Init PROVE IInv
    OBVIOUS
  <1>1. mem \in [0..(Host - 1) -> Nat]
    BY DEF Init
  <1>2. fault = FALSE
    BY DEF Init
  <1>. QED
    BY <1>1, <1>2 DEF IInv, TypeOK, NeverFaults

(* No access that goldeneye_runtime_translate lets through, and no store of
   the game to a 32-bit address, touches memory outside the mapping. *)
THEOREM AccessesInside == Spec => []NeverFaults
  <1>. QED
    BY InitKeeps, StepKeeps, PTL DEF Spec, IInv

-----------------------------------------------------------------------------
(* The cells of the mapping from base on, as a window of the given size. *)
View(base, size) == [c \in 0..(size - 1) |-> mem[base + c]]

(* A write fills the part of a window that it reaches ... *)
LEMMA ViewWritten ==
    ASSUME TypeOK, NEW base \in Nat, NEW size \in Nat, base + size <= Host,
           NEW at \in Nat, NEW n \in Nat, NEW x, Write(at, n, x)
    PROVE  View(base, size)' =
             Windows!Filled(View(base, size), at - base, n, x)
  <1>1. Host \in Nat
    BY AddressAssumption DEF Host
  <1>2. ASSUME NEW c \in 0..(size - 1)
        PROVE  mem'[base + c] =
                 IF c >= at - base /\ c < (at - base) + n
                 THEN x ELSE mem[base + c]
    <2>1. base + c \in DOMAIN mem
      BY <1>1 DEF TypeOK
    <2>2. mem'[base + c] = IF base + c >= at /\ base + c < at + n
                           THEN x ELSE mem[base + c]
      BY <2>1 DEF Write
    <2>. QED
      BY <2>2
  <1>. QED
    BY <1>2 DEF Windows!Filled, View

(* ... and leaves one alone that it does not reach. *)
LEMMA ViewKept ==
    ASSUME TypeOK, NEW base \in Nat, NEW size \in Nat, base + size <= Host,
           NEW at \in Nat, NEW n \in Nat, NEW x, Write(at, n, x),
           at + n <= base \/ base + size <= at
    PROVE  View(base, size)' = View(base, size)
  <1>1. Host \in Nat
    BY AddressAssumption DEF Host
  <1>2. ASSUME NEW c \in 0..(size - 1)
        PROVE  mem'[base + c] = mem[base + c]
    <2>1. base + c \in DOMAIN mem
      BY <1>1 DEF TypeOK
    <2>2. ~(base + c >= at /\ base + c < at + n)
      OBVIOUS
    <2>. QED
      BY <2>1, <2>2 DEF Write
  <1>. QED
    BY <1>2 DEF View

(* The three windows are views of the mapping that it holds entirely. *)
LEMMA WindowsAreViews ==
    /\ RamView = View(0, Rdram)
    /\ UncachedView = View(K1 - K0, Rdram)
    /\ LowView = View(Space - (K0 - Low), K0 - Low)
    /\ {K1 - K0, Rdram, Space - (K0 - Low), K0 - Low} \subseteq Nat
    /\ (K1 - K0) + Rdram <= Host
    /\ (Space - (K0 - Low)) + (K0 - Low) <= Host
  <1>1. \A c \in 0..(Rdram - 1) : 0 + c = c
    BY AddressAssumption
  <1>2. RamView = View(0, Rdram)
    BY <1>1 DEF RamView, View
  <1>3. UncachedView = View(K1 - K0, Rdram)
    BY DEF UncachedView, View
  <1>4. LowView = View(Space - (K0 - Low), K0 - Low)
    BY DEF LowView, View
  <1>. QED
    BY <1>2, <1>3, <1>4, AddressAssumption DEF Host

(* The same after a step. *)
LEMMA WindowsAreViewsNext ==
    /\ RamView' = View(0, Rdram)'
    /\ UncachedView' = View(K1 - K0, Rdram)'
    /\ LowView' = View(Space - (K0 - Low), K0 - Low)'
  <1>1. \A c \in 0..(Rdram - 1) : 0 + c = c
    BY AddressAssumption
  <1>2. RamView' = View(0, Rdram)'
    BY <1>1 DEF RamView, View
  <1>3. UncachedView' = View(K1 - K0, Rdram)'
    BY DEF UncachedView, View
  <1>4. LowView' = View(Space - (K0 - Low), K0 - Low)'
    BY DEF LowView, View
  <1>. QED
    BY <1>2, <1>3, <1>4

-----------------------------------------------------------------------------
(* A word stored at its macro's offset shows in the window of its address, at
   its place there, and in no other. *)
LEMMA WordShows ==
    ASSUME TypeOK, NEW v \in Addresses, NEW x,
           Write(MacroOffset(v), 1, x)
    PROVE  /\ RamView' = IF Windows!InK0(v)
                         THEN Windows!Filled(RamView, v - K0, 1, x)
                         ELSE RamView
           /\ UncachedView' = IF Windows!InK1(v)
                              THEN Windows!Filled(UncachedView, v - K1, 1, x)
                              ELSE UncachedView
           /\ LowView' = IF Windows!InLow(v)
                         THEN Windows!Filled(LowView, v - Low, 1, x)
                         ELSE LowView
  <1>. DEFINE at == MacroOffset(v)
              ub == K1 - K0
              lb == Space - (K0 - Low)
              ls == K0 - Low
  <1>1. at \in Nat /\ 1 \in Nat /\ Write(at, 1, x)
    BY WordInside
  <1>2. /\ v \in 0..(Space - 1)
        /\ {Space, K0, K1, Low, Rdram, MaxSize} \subseteq Nat
    BY AddressAssumption
  <1>3. /\ Windows!InK0(v) => at - 0 = v - K0
        /\ ~Windows!InK0(v) => at + 1 <= 0 \/ 0 + Rdram <= at
    BY <1>2, AddressAssumption DEF Windows!InK0, MacroOffset
  <1>4. /\ Windows!InK1(v) => at - ub = v - K1
        /\ ~Windows!InK1(v) => at + 1 <= ub \/ ub + Rdram <= at
    BY <1>2, AddressAssumption DEF Windows!InK1, MacroOffset
  <1>5. /\ Windows!InLow(v) => at - lb = v - Low
        /\ ~Windows!InLow(v) => at + 1 <= lb \/ lb + ls <= at
    BY <1>2, AddressAssumption DEF Windows!InLow, MacroOffset
  <1>6. /\ {0, ub, lb, ls, Rdram} \subseteq Nat /\ 0 + Rdram <= Host
        /\ ub + Rdram <= Host /\ lb + ls <= Host
    BY <1>2, WindowsAreViews, AddressAssumption DEF Host
  <1>. HIDE DEF at, ub, lb, ls
  <1>7. View(0, Rdram)' = IF Windows!InK0(v)
                          THEN Windows!Filled(View(0, Rdram), v - K0, 1, x)
                          ELSE View(0, Rdram)
    BY <1>1, <1>3, <1>6, ViewWritten, ViewKept
  <1>8. View(ub, Rdram)' = IF Windows!InK1(v)
                           THEN Windows!Filled(View(ub, Rdram), v - K1, 1, x)
                           ELSE View(ub, Rdram)
    BY <1>1, <1>4, <1>6, ViewWritten, ViewKept
  <1>9. View(lb, ls)' = IF Windows!InLow(v)
                        THEN Windows!Filled(View(lb, ls), v - Low, 1, x)
                        ELSE View(lb, ls)
    BY <1>1, <1>5, <1>6, ViewWritten, ViewKept
  <1>. QED
    BY <1>7, <1>8, <1>9, WindowsAreViews, WindowsAreViewsNext
       DEF ub, lb, ls

(* A block written at its pointer's offset shows in RDRAM through either view
   or in the low mirror, and what runs over the end of a window in none. *)
LEMMA BlockShows ==
    ASSUME TypeOK, NEW v \in Addresses, NEW n \in Sizes, NEW x,
           Translates(v, n), Write(Offset(v), n, x)
    PROVE  /\ RamView' = IF Windows!InK0(v)
                         THEN Windows!Filled(RamView, v - K0, n, x)
                         ELSE IF Windows!InK1(v)
                         THEN Windows!Filled(RamView, v - K1, n, x)
                         ELSE RamView
           /\ UncachedView' = UncachedView
           /\ LowView' = IF Windows!InLow(v)
                         THEN Windows!Filled(LowView, v - Low, n, x)
                         ELSE LowView
  <1>. DEFINE at == Offset(v)
              ub == K1 - K0
              lb == Space - (K0 - Low)
              ls == K0 - Low
  <1>1. at \in Nat /\ n \in 0..MaxSize /\ Write(at, n, x)
    BY BlockInside, AddressAssumption DEF Host
  <1>2. /\ v \in 0..(Space - 1)
        /\ {Space, K0, K1, Low, Rdram, MaxSize} \subseteq Nat
        /\ Offset(v) # Nowhere
    BY AddressAssumption DEF Translates
  <1>3. /\ Windows!InK0(v) => at - 0 = v - K0
        /\ ~Windows!InK0(v) /\ Windows!InK1(v) => at - 0 = v - K1
        /\ ~Windows!InK0(v) /\ ~Windows!InK1(v) =>
              at + n <= 0 \/ 0 + Rdram <= at
    BY <1>1, <1>2, AddressAssumption
       DEF Windows!InK0, Windows!InK1, Offset, Nowhere
  <1>4. at + n <= ub \/ ub + Rdram <= at
    BY <1>1, <1>2, AddressAssumption DEF Offset, Nowhere
  <1>5. /\ Windows!InLow(v) => at - lb = v - Low
        /\ ~Windows!InLow(v) => at + n <= lb \/ lb + ls <= at
    BY <1>1, <1>2, AddressAssumption DEF Windows!InLow, Offset, Nowhere
  <1>6. /\ {0, ub, lb, ls, Rdram, n} \subseteq Nat /\ 0 + Rdram <= Host
        /\ ub + Rdram <= Host /\ lb + ls <= Host
    BY <1>1, <1>2, WindowsAreViews, AddressAssumption DEF Host
  <1>. HIDE DEF at, ub, lb, ls
  <1>7. View(0, Rdram)' = IF Windows!InK0(v)
                          THEN Windows!Filled(View(0, Rdram), v - K0, n, x)
                          ELSE IF Windows!InK1(v)
                          THEN Windows!Filled(View(0, Rdram), v - K1, n, x)
                          ELSE View(0, Rdram)
    BY <1>1, <1>3, <1>6, ViewWritten, ViewKept
  <1>8. View(ub, Rdram)' = View(ub, Rdram)
    BY <1>1, <1>4, <1>6, ViewKept
  <1>9. View(lb, ls)' = IF Windows!InLow(v)
                        THEN Windows!Filled(View(lb, ls), v - Low, n, x)
                        ELSE View(lb, ls)
    BY <1>1, <1>5, <1>6, ViewWritten, ViewKept
  <1>. QED
    BY <1>7, <1>8, <1>9, WindowsAreViews, WindowsAreViewsNext
       DEF ub, lb, ls
-----------------------------------------------------------------------------
(* A step that leaves the mapping alone leaves the windows alone. *)
LEMMA ViewsUnchanged ==
    ASSUME UNCHANGED <<mem, fault>>
    PROVE  UNCHANGED <<RamView, UncachedView, LowView, fault>>
  BY DEF RamView, UncachedView, LowView

(* A word that translates is one of a window, and only such a word. *)
LEMMA WordInWindow ==
    ASSUME NEW v \in Addresses
    PROVE  Translates(v, 1) <=>
             Windows!InK0(v) \/ Windows!InK1(v) \/ Windows!InLow(v)
  <1>1. /\ v \in 0..(Space - 1)
        /\ {Space, K0, K1, Low, Rdram, MaxSize} \subseteq Nat
    BY AddressAssumption
  <1>. QED
    BY <1>1, AddressAssumption
       DEF Translates, Offset, Nowhere, Host,
           Windows!InK0, Windows!InK1, Windows!InLow

(* A store through the macros' offset is the store MemoryWindows asks for. *)
LEMMA StoreIsStore ==
    ASSUME TypeOK, NEW v \in Addresses, NEW x,
           Write(MacroOffset(v), 1, x), call' = <<"store", v, x>>
    PROVE  Windows!StoreWord(v, x)
  <1>1. ~(MacroOffset(v) + 1 > Host)
    BY WordInside, AddressAssumption DEF Host
  <1>2. fault' = fault
    BY <1>1 DEF Write
  <1>. QED
    BY <1>2, WordShows DEF Windows!StoreWord

(* So is the one that write_word refuses: no window shows that address. *)
LEMMA RefusalIsStore ==
    ASSUME NEW v \in Addresses, NEW x, ~Translates(v, 1),
           UNCHANGED <<mem, fault>>, call' = <<"store", v, x>>
    PROVE  Windows!StoreWord(v, x)
  BY WordInWindow, ViewsUnchanged DEF Windows!StoreWord

(* A word is read from the window of its address. *)
LEMMA LoadIsLoad ==
    ASSUME TypeOK, NEW v \in Addresses, read_word(v)
    PROVE  Windows!LoadWord(v)
  <1>1. /\ v \in 0..(Space - 1)
        /\ {Space, K0, K1, Low, Rdram, MaxSize} \subseteq Nat
    BY AddressAssumption
  <1>2. Windows!InK0(v) => mem[MacroOffset(v)] = RamView[v - K0]
    BY <1>1, AddressAssumption DEF Windows!InK0, RamView, MacroOffset
  <1>3. Windows!InK1(v) => mem[MacroOffset(v)] = UncachedView[v - K1]
    <2>. SUFFICES ASSUME Windows!InK1(v)
                  PROVE  mem[MacroOffset(v)] = UncachedView[v - K1]
      OBVIOUS
    <2>1. v - K1 \in 0..(Rdram - 1) /\ MacroOffset(v) = K1 - K0 + (v - K1)
      BY <1>1, AddressAssumption DEF Windows!InK1, MacroOffset
    <2>. QED
      BY <2>1 DEF UncachedView
  <1>4. Windows!InLow(v) => mem[MacroOffset(v)] = LowView[v - Low]
    <2>. SUFFICES ASSUME Windows!InLow(v)
                  PROVE  mem[MacroOffset(v)] = LowView[v - Low]
      OBVIOUS
    <2>1. /\ v - Low \in 0..(K0 - Low - 1)
          /\ MacroOffset(v) = Space - (K0 - Low) + (v - Low)
      BY <1>1, AddressAssumption DEF Windows!InLow, MacroOffset
    <2>. QED
      BY <2>1 DEF LowView
  <1>5. (IF Translates(v, 1) THEN mem[MacroOffset(v)] ELSE 0)
          = IF Windows!InK0(v) THEN RamView[v - K0]
            ELSE IF Windows!InK1(v) THEN UncachedView[v - K1]
            ELSE IF Windows!InLow(v) THEN LowView[v - Low]
            ELSE 0
    BY <1>2, <1>3, <1>4, WordInWindow
  <1>. QED
    BY <1>5, ViewsUnchanged DEF read_word, Windows!LoadWord

(* A block is let through when its first cell is in a window and, in the low
   mirror, when it ends with the mapping or before. *)
LEMMA BlockInWindow ==
    ASSUME NEW v \in Addresses, NEW n \in Sizes
    PROVE  Translates(v, n) <=>
             \/ Windows!InK0(v) \/ Windows!InK1(v)
             \/ Windows!InLow(v) /\ v + n <= K0 + Rdram
  <1>1. /\ v \in 0..(Space - 1) /\ n \in 0..MaxSize
        /\ {Space, K0, K1, Low, Rdram, MaxSize} \subseteq Nat
    BY AddressAssumption
  <1>2. n <= Host
    BY <1>1, AddressAssumption DEF Host
  <1>3. Windows!InK0(v) => Translates(v, n)
    BY <1>1, <1>2, AddressAssumption
       DEF Translates, Offset, Nowhere, Host, Windows!InK0
  <1>4. Windows!InK1(v) => Translates(v, n)
    BY <1>1, <1>2, AddressAssumption
       DEF Translates, Offset, Nowhere, Host, Windows!InK1
  <1>5. Windows!InLow(v) =>
          (Translates(v, n) <=> v + n <= K0 + Rdram)
    BY <1>1, <1>2, AddressAssumption
       DEF Translates, Offset, Nowhere, Host, Windows!InLow
  <1>6. Translates(v, n) =>
          Windows!InK0(v) \/ Windows!InK1(v) \/ Windows!InLow(v)
    BY DEF Translates, Offset, Windows!InK0, Windows!InK1, Windows!InLow
  <1>. QED
    BY <1>3, <1>4, <1>5, <1>6

(* Every fill, let through or not, is a fill of MemoryWindows. *)
LEMMA FillIsFill ==
    ASSUME TypeOK, NEW v \in Addresses, NEW n \in Sizes, NEW x,
           FillBlock(v, n, x)
    PROVE  Windows!FillBlock(v, n, x)
  <1>. DEFINE inside == \/ Windows!InK0(v) \/ Windows!InK1(v)
                        \/ Windows!InLow(v) /\ v + n <= K0 + Rdram
  <1>1. Translates(v, n) <=> inside
    BY BlockInWindow
  <1>2. call' = <<"fill", v, n, inside>>
    <2>1. Translates(v, n) = inside
      BY <1>1 DEF Translates
    <2>. QED
      BY <2>1 DEF FillBlock
  <1>3. CASE Translates(v, n)
    <2>1. Write(Offset(v), n, x)
      BY <1>3 DEF FillBlock
    <2>2. fault' = fault
      <3>1. ~(Offset(v) + n > Host)
        BY <1>3, BlockInside, AddressAssumption DEF Host
      <3>. QED
        BY <2>1, <3>1 DEF Write
    <2>. QED
      BY <1>1, <1>2, <1>3, <2>1, <2>2, BlockShows DEF Windows!FillBlock
  <1>4. CASE ~Translates(v, n)
    BY <1>1, <1>2, <1>4, ViewsUnchanged DEF FillBlock, Windows!FillBlock
  <1>. QED
    BY <1>3, <1>4

(* Every step of the mapping is a step of the windows, or none. *)
LEMMA StepIsStep ==
    TypeOK /\ [Next]_vars => [Windows!Next]_(Windows!vars)
  <1>. SUFFICES ASSUME TypeOK, [Next]_vars
                PROVE  [Windows!Next]_(Windows!vars)
    OBVIOUS
  <1>1. ASSUME NEW v \in Addresses, NEW x \in Values, write_word(v, x)
        PROVE  Windows!StoreWord(v, x)
    BY <1>1, StoreIsStore, RefusalIsStore DEF write_word
  <1>2. ASSUME NEW v \in Addresses, NEW x \in Values, GameStore(v, x)
        PROVE  Windows!StoreWord(v, x)
    BY <1>2, StoreIsStore DEF GameStore
  <1>3. ASSUME NEW v \in Addresses, osVirtualToPhysical(v)
        PROVE  Windows!Physical(v)
    BY <1>3, ViewsUnchanged
       DEF osVirtualToPhysical, PhysicalOf, Windows!Physical,
           Windows!InK0, Windows!InK1
  <1>4. CASE UNCHANGED vars
    BY <1>4, ViewsUnchanged DEF vars, Windows!vars
  <1>. QED
    BY <1>1, <1>2, <1>3, <1>4, LoadIsLoad, FillIsFill DEF Next, Windows!Next

(* The mapping starts as the windows do. *)
LEMMA InitIsInit == Init => Windows!Init
  <1>. SUFFICES ASSUME Init PROVE Windows!Init
    OBVIOUS
  <1>0. {Space, K0, K1, Low, Rdram} \subseteq Nat /\ Host \in Nat
    BY AddressAssumption DEF Host
  <1>1. RamView = [c \in 0..(Rdram - 1) |-> 0]
    BY <1>0 DEF Init, RamView, Host
  <1>2. UncachedView = [c \in 0..(Rdram - 1) |-> 0]
    <2>1. ASSUME NEW c \in 0..(Rdram - 1)
          PROVE  K1 - K0 + c \in 0..(Host - 1)
      BY <1>0, AddressAssumption DEF Host
    <2>. QED
      BY <2>1 DEF Init, UncachedView
  <1>3. LowView = [c \in 0..(K0 - Low - 1) |-> 0]
    <2>1. ASSUME NEW c \in 0..(K0 - Low - 1)
          PROVE  Space - (K0 - Low) + c \in 0..(Host - 1)
      BY <1>0, AddressAssumption DEF Host
    <2>. QED
      BY <2>1 DEF Init, LowView
  <1>. QED
    BY <1>1, <1>2, <1>3 DEF Init, Windows!Init

(* For windows, addresses and blocks of any size, the two ways into the one
   mapping give the three windows of MemoryWindows. *)
THEOREM MappingShowsWindows == Spec => ImplementsWindows
  <1>1. Spec => []TypeOK
    BY InitKeeps, StepKeeps, PTL DEF Spec, IInv
  <1>. QED
    BY <1>1, InitIsInit, StepIsStep, PTL
       DEF Spec, ImplementsWindows, Windows!Spec
=============================================================================
