---------------------------- MODULE Memp_proofs ----------------------------
(***************************************************************************)
(* The pools keep to their regions and their blocks apart, for any granule,*)
(* address width, banks, regions and sizes.                                *)
(***************************************************************************)
EXTENDS Memp, TLAPS

-----------------------------------------------------------------------------
(* Multiples of the granule are ordered as their quotients are. *)
LEMMA Multiples ==
    ASSUME NEW d \in Nat \ {0}, NEW p \in Int, NEW q \in Int,
           d * p <= (d * q) + (d - 1)
    PROVE  d * p <= d * q
  <1>1. CASE p <= q
    BY <1>1, Z3
  <1>2. CASE p >= q + 1
    <2>1. d * p >= d * (q + 1)
      BY <1>2, Z3
    <2>2. d * (q + 1) = (d * q) + d
      BY Z3
    <2>. QED
      BY <2>1, <2>2
  <1>. QED
    BY <1>1, <1>2

(* A remainder and its quotient. *)
LEMMA Division ==
    ASSUME NEW d \in Nat \ {0}, NEW s \in Nat
    PROVE  /\ s % d \in 0..(d - 1)
           /\ s \div d \in Nat
           /\ s = (d * (s \div d)) + (s % d)
  BY Z3

(* A remainder by the width of an address, below it and one time round. *)
LEMMA StaysBelow ==
    ASSUME NEW d \in Nat \ {0}, NEW s \in Nat, s < d
    PROVE  s % d = s
  BY Z3

LEMMA WrapsOnce ==
    ASSUME NEW d \in Nat \ {0}, NEW s \in Nat, d <= s, s < 2 * d
    PROVE  s % d = s - d
  BY Z3

(* Rounding down gives a multiple of the granule, at most a granule less. *)
Down(s) == s - (s % Align)

LEMMA DownBounds ==
    ASSUME NEW s \in Nat
    PROVE  /\ Down(s) \in Nat /\ Down(s) <= s /\ s < Down(s) + Align
           /\ Down(s) = Align * (s \div Align)
  <1>1. /\ s % Align \in 0..(Align - 1) /\ s \div Align \in Nat
        /\ s = (Align * (s \div Align)) + (s % Align)
    BY MempAssumption, Division
  <1>2. Align * (s \div Align) \in Nat
    BY <1>1, MempAssumption
  <1>. QED
    BY <1>1, <1>2, MempAssumption DEF Down

(* What align16 gives without a wrap. *)
LEMMA AlignUpAbove ==
    ASSUME NEW v \in Nat, v + Align <= Wrap
    PROVE  /\ AlignUp(v) \in Addr /\ v <= AlignUp(v)
           /\ \E q \in Nat : AlignUp(v) = Align * q
  <1>. DEFINE s == v + Align - 1
  <1>1. s \in Nat /\ s < Wrap /\ Wrap \in Nat \ {0} /\ Align \in Nat \ {0}
    BY MempAssumption
  <1>2. s % Wrap = s
    BY <1>1, Z3
  <1>3. AlignUp(v) = Down(s)
    BY <1>2 DEF AlignUp, Down
  <1>4. /\ Down(s) \in Nat /\ Down(s) <= s /\ s < Down(s) + Align
        /\ Down(s) = Align * (s \div Align)
    BY <1>1, DownBounds
  <1>5. s \div Align \in Nat
    BY <1>1, Division
  <1>. QED
    BY <1>1, <1>3, <1>4, <1>5 DEF Addr

(* The address space holds a granule. *)
LEMMA AlignFits == Align <= Wrap
  BY MempAssumption

(* With or without one, it gives an address. *)
LEMMA AlignUpIsAddr ==
    ASSUME NEW v \in Nat
    PROVE  AlignUp(v) \in Addr
  <1>. DEFINE s == (v + Align - 1) % Wrap
  <1>1. s \in Nat /\ s < Wrap
    BY MempAssumption, Z3
  <1>2. AlignUp(v) = Down(s)
    BY DEF AlignUp, Down
  <1>3. Down(s) \in Nat /\ Down(s) <= s
    BY <1>1, DownBounds
  <1>. QED
    BY <1>1, <1>2, <1>3, MempAssumption DEF Addr

(* The end of a block is an address. *)
LEMMA EndIsAddr ==
    ASSUME NEW a \in Addr, NEW n \in Addr
    PROVE  EndOf(a, n) \in Addr
  <1>1. (a + n) % Wrap \in Nat
    BY MempAssumption, Z3 DEF Addr
  <1>. QED
    BY <1>1, AlignUpIsAddr DEF EndOf

(* A size that does not come near the end of the address space is granted in
   full. *)
LEMMA EndWithinContract ==
    ASSUME NEW a \in Addr, NEW n \in Addr, a + n + Align <= Wrap
    PROVE  a + n <= EndOf(a, n)
  <1>1. a + n \in Nat /\ a + n < Wrap
    BY MempAssumption DEF Addr
  <1>2. (a + n) % Wrap = a + n
    BY <1>1, MempAssumption, Z3
  <1>3. a + n <= AlignUp(a + n)
    BY <1>1, AlignUpAbove
  <1>. QED
    BY <1>2, <1>3 DEF EndOf

(* The test that replaces a test for overflow: from an aligned address, an
   end that is larger than the start has not wrapped, for any size. *)
LEMMA EndHasNotWrapped ==
    ASSUME NEW a \in Addr, NEW q \in Nat, a = Align * q, NEW n \in Addr,
           EndOf(a, n) > a
    PROVE  a + n <= EndOf(a, n)
  <1>. DEFINE s == (a + n) % Wrap
              t == (s + Align - 1) % Wrap
  <1>1. /\ Wrap \in Nat \ {0} /\ Align \in Nat \ {0} /\ a \in Nat /\ n \in Nat
        /\ a < Wrap /\ n < Wrap
    BY MempAssumption DEF Addr
  <1>2. s \in Nat /\ s < Wrap
    BY <1>1, Z3
  <1>3. t \in Nat /\ t < Wrap
    BY <1>1, <1>2, Z3
  <1>4. EndOf(a, n) = Down(t)
    BY DEF EndOf, AlignUp, Down
  <1>5. /\ Down(t) \in Nat /\ Down(t) <= t /\ t < Down(t) + Align
        /\ Down(t) = Align * (t \div Align) /\ t \div Align \in Nat
    BY <1>1, <1>3, DownBounds, Division
  <1>6. CASE s + Align - 1 >= Wrap
    <2>1. (s + Align - 1) % Wrap = (s + Align - 1) - Wrap
      <3>1. Align <= Wrap
        BY AlignFits
      <3>2. s + Align - 1 \in Nat /\ s + Align - 1 < 2 * Wrap
        BY <1>1, <1>2, <3>1
      <3>. HIDE DEF s
      <3>. QED
        BY <1>1, <1>6, <3>2, WrapsOnce
    <2>2. t <= Align - 2
      BY <1>1, <1>2, <2>1
    <2>3. Down(t) <= (Align * 0) + (Align - 1)
      BY <1>1, <1>5, <2>2
    <2>4. Down(t) <= Align * 0
      BY <1>1, <1>5, <2>3, Multiples
    <2>. QED
      BY <1>1, <1>4, <1>5, <2>4
  <1>7. CASE s + Align - 1 < Wrap
    <2>1. t = s + Align - 1
      <3>. HIDE DEF s
      <3>1. s + Align - 1 \in Nat
        BY <1>1, <1>2
      <3>. QED
        BY <1>1, <1>7, <3>1, StaysBelow
    <2>2. CASE a + n < Wrap
      <3>1. s = a + n
        <4>1. a + n \in Nat
          BY <1>1
        <4>. QED
          BY <1>1, <2>2, <4>1, StaysBelow
      <3>. QED
        BY <1>1, <1>4, <1>5, <2>1, <3>1
    <2>3. CASE a + n >= Wrap
      <3>1. s = (a + n) - Wrap
        <4>1. a + n \in Nat /\ a + n < 2 * Wrap
          BY <1>1
        <4>. QED
          BY <1>1, <2>3, <4>1, WrapsOnce
      <3>2. Down(t) <= (Align * q) + (Align - 1)
        BY <1>1, <1>5, <2>1, <3>1
      <3>3. Down(t) <= Align * q
        BY <1>1, <1>5, <3>2, Multiples
      <3>. QED
        BY <1>1, <1>4, <1>5, <3>3
    <2>. QED
      BY <1>1, <2>2, <2>3
  <1>. QED
    BY <1>1, <1>2, <1>6, <1>7

-----------------------------------------------------------------------------
(* A bank is as the program started, or in the region the game gives it. *)
PoolKept(p, b) ==
    \/ p = ZeroPool
    \/ /\ p.start = Start[b] /\ p.end = End[b]
       /\ Start[b] <= p.pos /\ p.pos <= End[b]

(* The invariant with what makes it inductive: the banks' regions, the cursor
   below its limit, and no block without an address of its own, so that the
   block prevpos names is the only one there. *)
MempInv ==
    /\ TypeOK
    /\ \A b \in Bank : PoolKept(pool[b], b)
    /\ ScratchStart <= cursor /\ cursor < ScratchLimit
    /\ \A k \in blocks : k.lo < k.hi
    /\ BlocksDisjoint
    /\ LastBlockOnTop

(* What blocks and pools are. *)
BlockType == [from : Bank \cup {Scratch}, lo : Addr, hi : Addr,
              size : Addr, told : Addr]

PoolType == [start : Addr, pos : Addr, end : Addr, prevpos : Addr]

(* Where the next block of a pool or of the scratch region goes. *)
LEMMA NextInPool ==
    ASSUME MempInv, NEW b \in Bank, NEW n \in Addr, PoolFits(b, n)
    PROVE  /\ AlignUp(pool[b].pos) \in Addr
           /\ EndOf(AlignUp(pool[b].pos), n) \in Addr
           /\ pool[b].start <= AlignUp(pool[b].pos)
           /\ pool[b].pos <= AlignUp(pool[b].pos)
           /\ AlignUp(pool[b].pos) + n <= EndOf(AlignUp(pool[b].pos), n)
           /\ AlignUp(pool[b].pos) < EndOf(AlignUp(pool[b].pos), n)
           /\ EndOf(AlignUp(pool[b].pos), n) <= pool[b].end
           /\ pool[b].start = Start[b] /\ pool[b].end = End[b]
  <1>. DEFINE v == pool[b].pos
              a == AlignUp(v)
  <1>1. pool[b] \in PoolType /\ Wrap \in Nat /\ Align \in Nat
    BY MempAssumption DEF MempInv, TypeOK, PoolType
  <1>2. /\ pool[b].start # 0 /\ pool[b].start <= v /\ v < pool[b].end
        /\ EndOf(a, n) > a /\ EndOf(a, n) <= pool[b].end
    BY DEF PoolFits, Usable
  <1>3. pool[b].start = Start[b] /\ pool[b].end = End[b]
    BY <1>2 DEF MempInv, PoolKept, ZeroPool
  <1>4. End[b] \in Nat /\ End[b] + Align <= Wrap
    BY MempAssumption
  <1>5. v \in Nat /\ v + Align <= Wrap
    BY <1>1, <1>2, <1>3, <1>4 DEF PoolType, Addr
  <1>6. a \in Addr /\ v <= a /\ \E q \in Nat : a = Align * q
    BY <1>5, AlignUpAbove
  <1>7. PICK q \in Nat : a = Align * q
    BY <1>6
  <1>. HIDE DEF a, v
  <1>8. a + n <= EndOf(a, n) /\ EndOf(a, n) \in Addr
    BY <1>2, <1>6, <1>7, EndHasNotWrapped, EndIsAddr
  <1>9. pool[b].start <= a
    BY <1>1, <1>2, <1>5, <1>6 DEF PoolType, Addr
  <1>. QED
    BY <1>2, <1>3, <1>6, <1>8, <1>9 DEF a, v

(* The same of the scratch region. *)
LEMMA NextInScratch ==
    ASSUME MempInv, NEW n \in Addr, ScratchFits(n)
    PROVE  /\ AlignUp(cursor) \in Addr
           /\ EndOf(AlignUp(cursor), n) \in Addr
           /\ cursor <= AlignUp(cursor)
           /\ AlignUp(cursor) + n <= EndOf(AlignUp(cursor), n)
           /\ AlignUp(cursor) < EndOf(AlignUp(cursor), n)
           /\ EndOf(AlignUp(cursor), n) < ScratchLimit
  <1>. DEFINE a == AlignUp(cursor)
  <1>1. cursor \in Nat /\ cursor + Align <= Wrap
    BY MempAssumption DEF MempInv, TypeOK, Addr
  <1>2. a \in Addr /\ cursor <= a /\ \E q \in Nat : a = Align * q
    BY <1>1, AlignUpAbove
  <1>3. PICK q \in Nat : a = Align * q
    BY <1>2
  <1>4. EndOf(a, n) > a /\ EndOf(a, n) < ScratchLimit
    BY DEF ScratchFits
  <1>. HIDE DEF a
  <1>5. a + n <= EndOf(a, n) /\ EndOf(a, n) \in Addr
    BY <1>2, <1>3, <1>4, EndHasNotWrapped, EndIsAddr
  <1>. QED
    BY <1>2, <1>4, <1>5 DEF a

(* The program starts with empty pools and no blocks. *)
LEMMA MempInit == Init => MempInv
  <1>. SUFFICES ASSUME Init PROVE MempInv
    OBVIOUS
  <1>1. 0 \in Addr /\ 1 \in Addr /\ ScratchStart \in Addr
    BY MempAssumption DEF Addr
  <1>2. TypeOK
    BY <1>1 DEF Init, TypeOK, ZeroPool
  <1>3. \A b \in Bank : PoolKept(pool[b], b) /\ pool[b].prevpos = 0
    BY DEF Init, PoolKept, ZeroPool
  <1>. QED
    BY <1>2, <1>3, MempAssumption
    DEF Init, MempInv, BlocksDisjoint, LastBlockOnTop

(* The game gives a bank its region anew. *)
LEMMA SetBankKeeps ==
    ASSUME MempInv, NEW b \in Bank, SetBank(b)
    PROVE  MempInv'
  <1>1. Start[b] \in Addr /\ End[b] \in Addr /\ 0 \in Addr
        /\ Start[b] \in Nat /\ End[b] \in Nat /\ Start[b] <= End[b]
    BY MempAssumption DEF Addr
  <1>2. /\ pool'[b] = [start |-> Start[b], pos |-> Start[b],
                       end |-> End[b], prevpos |-> 0]
        /\ \A c \in Bank : c # b => pool'[c] = pool[c]
    BY DEF SetBank, MempInv, TypeOK
  <1>3. blocks' = {k \in blocks : k.from # b} /\ UNCHANGED <<cursor, backed, r2>>
    BY DEF SetBank
  <1>4. TypeOK'
    BY <1>1, <1>3 DEF MempInv, TypeOK, SetBank
  <1>5. \A c \in Bank : PoolKept(pool'[c], c)
    BY <1>1, <1>2 DEF MempInv, PoolKept
  <1>6. \A k \in blocks' : /\ k \in blocks /\ k.from # b
                           /\ Mark(k.from)' = Mark(k.from)
                           /\ Bottom(k.from)' = Bottom(k.from)
    BY <1>2, <1>3 DEF MempInv, TypeOK, Mark, Bottom
  <1>7. BlocksDisjoint'
    BY <1>6 DEF MempInv, BlocksDisjoint
  <1>8. LastBlockOnTop'
    BY <1>2, <1>3 DEF MempInv, LastBlockOnTop
  <1>. QED
    BY <1>3, <1>4, <1>5, <1>6, <1>7, <1>8 DEF MempInv

(* A block put on top of its source, by whoever took it: the others end at
   the old mark. *)
LEMMA OnTopIsDisjoint ==
    ASSUME MempInv, NEW f \in Bank \cup {Scratch}, NEW a \in Addr,
           NEW e \in Addr, NEW n \in Addr,
           Bottom(f) <= a, Mark(f) <= a, a + n <= e, a < e,
           blocks' = blocks \cup {NewBlock(f, a, e, n)},
           Mark(f)' = e, Bottom(f)' = Bottom(f),
           \A g \in Bank \cup {Scratch} :
               g # f => Mark(g)' = Mark(g) /\ Bottom(g)' = Bottom(g)
    PROVE  BlocksDisjoint' /\ (\A k \in blocks' : k.lo < k.hi)
           /\ blocks' \subseteq BlockType
  <1>. DEFINE new == NewBlock(f, a, e, n)
  <1>1. new \in BlockType /\ new.from = f /\ new.lo = a /\ new.hi = e
        /\ new.size = n
    BY DEF NewBlock, BlockType
  <1>2. blocks \subseteq BlockType
    BY DEF MempInv, TypeOK, BlockType
  <1>. HIDE DEF new
  <1>3. \A k \in blocks' : k \in blocks \/ k = new
    BY DEF new
  <1>4. \A g \in Bank \cup {Scratch} : Mark(g) \in Addr /\ Bottom(g) \in Addr
    BY MempAssumption DEF MempInv, TypeOK, Mark, Bottom, Addr
  <1>5. \A k \in blocks : /\ k.lo + k.size <= k.hi /\ k.lo < k.hi
                          /\ Bottom(k.from) <= k.lo /\ k.hi <= Mark(k.from)
    BY DEF MempInv, BlocksDisjoint
  <1>6. \A k \in blocks' : /\ k.lo + k.size <= k.hi /\ k.lo < k.hi
                           /\ Bottom(k.from)' <= k.lo /\ k.hi <= Mark(k.from)'
    <2>. TAKE k \in blocks'
    <2>1. CASE k = new
      <3>1. k.from = f /\ k.lo = a /\ k.hi = e /\ k.size = n
        BY <1>1, <2>1
      <3>2. Bottom(k.from)' = Bottom(f) /\ Mark(k.from)' = e
        BY <3>1
      <3>. QED
        BY <3>1, <3>2 DEF Addr
    <2>2. CASE k \in blocks /\ k.from = f
      <3>1. k.lo \in Addr /\ k.hi \in Addr /\ k.size \in Addr
        BY <1>2, <2>2 DEF BlockType
      <3>2. k.lo + k.size <= k.hi /\ k.lo < k.hi /\ Bottom(f) <= k.lo
            /\ k.hi <= Mark(f)
        BY <1>5, <2>2
      <3>3. k.hi <= e
        BY <1>4, <3>1, <3>2 DEF Addr
      <3>. QED
        BY <2>2, <3>2, <3>3
    <2>3. CASE k \in blocks /\ k.from # f
      BY <1>2, <1>5, <2>3 DEF BlockType
    <2>. QED
      BY <1>3, <2>1, <2>2, <2>3
  <1>7. \A k \in blocks : k.from = f => k.hi <= new.lo
    BY <1>1, <1>2, <1>4, <1>5 DEF BlockType, Addr
  <1>8. \A k, l \in blocks' : k # l /\ k.from = l.from =>
                               k.hi <= l.lo \/ l.hi <= k.lo
    BY <1>1, <1>3, <1>7 DEF MempInv, BlocksDisjoint
  <1>. QED
    BY <1>1, <1>2, <1>3, <1>6, <1>8 DEF BlocksDisjoint

(* A block from a pool. *)
LEMMA PoolBlockKeeps ==
    ASSUME MempInv, NEW b \in Bank, NEW n \in Addr, PoolFits(b, n),
           AllocateFromPool(b, n)
    PROVE  MempInv'
  <1>. DEFINE a == AlignUp(pool[b].pos)
              e == EndOf(a, n)
  <1>1. /\ a \in Addr /\ e \in Addr /\ pool[b].start <= a /\ pool[b].pos <= a
        /\ a + n <= e /\ a < e /\ e <= pool[b].end
        /\ pool[b].start = Start[b] /\ pool[b].end = End[b]
    BY NextInPool
  <1>2. /\ pool' = [pool EXCEPT ![b].prevpos = a, ![b].pos = e]
        /\ backed' = backed \cup Covered(a, n)
        /\ blocks' = blocks \cup {NewBlock(b, a, e, n)}
        /\ r2' = a /\ cursor' = cursor
    BY DEF AllocateFromPool
  <1>. HIDE DEF a, e
  <1>3. pool \in [Bank -> PoolType] /\ b # Scratch
    BY MempAssumption DEF MempInv, TypeOK, PoolType
  <1>4. /\ pool' \in [Bank -> PoolType]
        /\ pool'[b].prevpos = a /\ pool'[b].pos = e
        /\ pool'[b].start = pool[b].start /\ pool'[b].end = pool[b].end
        /\ \A c \in Bank : c # b => pool'[c] = pool[c]
    BY <1>1, <1>2, <1>3 DEF PoolType
  <1>5. BlocksDisjoint' /\ (\A k \in blocks' : k.lo < k.hi)
        /\ blocks' \subseteq BlockType
    <2>1. Mark(b)' = e /\ Bottom(b)' = Bottom(b) /\ Mark(b) = pool[b].pos
          /\ Bottom(b) = pool[b].start
      BY <1>3, <1>4 DEF Mark, Bottom
    <2>2. \A g \in Bank \cup {Scratch} :
              g # b => Mark(g)' = Mark(g) /\ Bottom(g)' = Bottom(g)
      BY <1>2, <1>4 DEF Mark, Bottom
    <2>. QED
      BY <1>1, <1>2, <2>1, <2>2, OnTopIsDisjoint
  <1>6. TypeOK'
    <2>1. backed' \subseteq Addr
      BY <1>2 DEF MempInv, TypeOK, Covered
    <2>. QED
      BY <1>1, <1>2, <1>4, <1>5, <2>1 DEF MempInv, TypeOK, BlockType, PoolType
  <1>7. \A c \in Bank : PoolKept(pool'[c], c)
    <2>1. PoolKept(pool'[b], b)
      <3>1. /\ pool[b].start \in Nat /\ a \in Nat /\ e \in Nat
        BY <1>1, <1>3 DEF PoolType, Addr
      <3>. QED
        BY <1>1, <1>4, <3>1 DEF PoolKept
    <2>. QED
      BY <1>4, <2>1 DEF MempInv
  <1>8. LastBlockOnTop'
    <2>1. NewBlock(b, a, e, n) \in blocks'
      BY <1>2
    <2>2. /\ NewBlock(b, a, e, n).from = b /\ NewBlock(b, a, e, n).lo = a
          /\ NewBlock(b, a, e, n).hi = e
      BY DEF NewBlock
    <2>3. blocks \subseteq blocks'
      BY <1>2
    <2>4. ASSUME NEW c \in Bank, pool'[c].prevpos # 0
          PROVE  \E k \in blocks' : /\ k.from = c /\ k.lo = pool'[c].prevpos
                                   /\ k.hi = pool'[c].pos
      <3>1. CASE c = b
        BY <1>4, <2>1, <2>2, <3>1
      <3>2. CASE c # b
        BY <1>4, <2>3, <2>4, <3>2 DEF MempInv, LastBlockOnTop
      <3>. QED
        BY <3>1, <3>2
    <2>. QED
      BY <2>4 DEF LastBlockOnTop
  <1>. QED
    BY <1>2, <1>5, <1>6, <1>7, <1>8 DEF MempInv

(* A block from the scratch region. *)
LEMMA ScratchBlockKeeps ==
    ASSUME MempInv, NEW n \in Addr, ScratchFits(n), AllocateFromScratch(n)
    PROVE  MempInv'
  <1>. DEFINE a == AlignUp(cursor)
              e == EndOf(a, n)
  <1>1. /\ a \in Addr /\ e \in Addr /\ cursor <= a
        /\ a + n <= e /\ a < e /\ e < ScratchLimit
    BY NextInScratch
  <1>2. /\ cursor' = e
        /\ backed' = backed \cup Covered(a, n)
        /\ blocks' = blocks \cup {NewBlock(Scratch, a, e, n)}
        /\ r2' = a /\ pool' = pool
    BY DEF AllocateFromScratch
  <1>. HIDE DEF a, e
  <1>3. ScratchStart <= a /\ ScratchStart <= e /\ a \in Nat /\ e \in Nat
    BY <1>1, MempAssumption DEF MempInv, TypeOK, Addr
  <1>4. BlocksDisjoint' /\ (\A k \in blocks' : k.lo < k.hi)
        /\ blocks' \subseteq BlockType
    <2>1. Mark(Scratch)' = e /\ Bottom(Scratch)' = Bottom(Scratch)
          /\ Mark(Scratch) = cursor /\ Bottom(Scratch) = ScratchStart
      BY <1>2 DEF Mark, Bottom
    <2>2. \A g \in Bank \cup {Scratch} :
              g # Scratch => Mark(g)' = Mark(g) /\ Bottom(g)' = Bottom(g)
      BY <1>2 DEF Mark, Bottom
    <2>. QED
      BY <1>1, <1>2, <1>3, <2>1, <2>2, OnTopIsDisjoint
  <1>5. TypeOK'
    <2>1. backed' \subseteq Addr
      BY <1>2 DEF MempInv, TypeOK, Covered
    <2>. QED
      BY <1>1, <1>2, <1>4, <2>1 DEF MempInv, TypeOK, BlockType
  <1>6. LastBlockOnTop'
    BY <1>2 DEF MempInv, LastBlockOnTop
  <1>. QED
    BY <1>1, <1>2, <1>3, <1>4, <1>5, <1>6 DEF MempInv

(* A call that answers and changes nothing else. *)
LEMMA NothingMoves ==
    ASSUME MempInv, r2' \in {0, 1}, UNCHANGED <<pool, cursor, blocks>>,
           backed' \subseteq Addr
    PROVE  MempInv'
  <1>1. 0 \in Addr /\ 1 \in Addr
    BY MempAssumption DEF Addr
  <1>2. TypeOK'
    BY <1>1 DEF MempInv, TypeOK
  <1>3. BlocksDisjoint' /\ LastBlockOnTop'
    BY DEF MempInv, BlocksDisjoint, LastBlockOnTop, Mark, Bottom
  <1>. QED
    BY <1>2, <1>3 DEF MempInv

(* An allocation, from wherever it is served. *)
LEMMA AllocationKeeps ==
    ASSUME MempInv, NEW b \in Bank \cup {NoBank}, NEW n \in Addr,
           mempAllocBytesInBank(b, n)
    PROVE  MempInv'
  <1>1. CASE InRequested(b, n) /\ AllocateFromPool(b, n)
    BY <1>1, PoolBlockKeeps DEF InRequested
  <1>2. CASE InFallback(b, n) /\ AllocateFromPool(Fallback, n)
    BY <1>2, PoolBlockKeeps, MempAssumption DEF InFallback
  <1>3. CASE ScratchFits(n) /\ AllocateFromScratch(n)
    BY <1>3, ScratchBlockKeeps
  <1>4. CASE r2' = 0 /\ UNCHANGED <<pool, cursor, backed, blocks>>
    BY <1>4, NothingMoves DEF MempInv, TypeOK
  <1>. QED
    BY <1>1, <1>2, <1>3, <1>4 DEF mempAllocBytesInBank

(* A resize of the last block of a pool moves the mark and that block's end,
   and no other block is in the way. *)
LEMMA LastResizeKeeps ==
    ASSUME MempInv, ResizeContract, NEW ptr \in Pointers, NEW n \in ResizeSizes,
           NEW b \in Bank, InPool(ptr, n, b), ResizeLast(ptr, n, b)
    PROVE  MempInv'
  <1>. DEFINE e == EndOf(ptr, n)
              moved(k) == [k EXCEPT !.hi = e, !.size = n, !.told = n]
  <1>1. /\ ptr \in Addr /\ n \in Addr /\ ptr # 0 /\ ptr + n + Align <= Wrap
        /\ n # 0
    BY MempAssumption DEF ResizeContract, InPool
  <1>2. e \in Addr /\ ptr + n <= e
    BY <1>1, EndIsAddr, EndWithinContract
  <1>3. ptr < e
    BY <1>1, <1>2 DEF Addr
  <1>4. /\ Usable(pool[b]) /\ ptr = pool[b].prevpos /\ e <= pool[b].end
    BY DEF InPool
  <1>5. /\ pool' = [pool EXCEPT ![b].pos = e]
        /\ backed' = backed \cup Covered(ptr, n)
        /\ blocks' = {IF k.from = b /\ k.lo = ptr THEN moved(k) ELSE k
                        : k \in blocks}
        /\ r2' = 1 /\ cursor' = cursor
    BY DEF ResizeLast
  <1>. HIDE DEF e
  <1>6. pool \in [Bank -> PoolType] /\ b # Scratch /\ blocks \subseteq BlockType
    BY MempAssumption DEF MempInv, TypeOK, PoolType, BlockType
  <1>7. /\ pool' \in [Bank -> PoolType]
        /\ pool'[b].pos = e /\ pool'[b].prevpos = pool[b].prevpos
        /\ pool'[b].start = pool[b].start /\ pool'[b].end = pool[b].end
        /\ \A c \in Bank : c # b => pool'[c] = pool[c]
    BY <1>2, <1>5, <1>6 DEF PoolType
  <1>8. PICK top \in blocks : /\ top.from = b /\ top.lo = ptr
                              /\ top.hi = pool[b].pos
    BY <1>1, <1>4 DEF MempInv, LastBlockOnTop
  <1>9. \A k \in blocks : /\ k.lo < k.hi /\ k.lo + k.size <= k.hi
                          /\ Bottom(k.from) <= k.lo /\ k.hi <= Mark(k.from)
    BY DEF MempInv, BlocksDisjoint
  <1>10. \A k \in blocks : k.from = b => k = top \/ k.hi <= ptr
    <2>. SUFFICES ASSUME NEW k \in blocks, k.from = b, k # top
                  PROVE  k.hi <= ptr
      OBVIOUS
    <2>1. k.hi <= top.lo \/ top.hi <= k.lo
      BY <1>8 DEF MempInv, BlocksDisjoint
    <2>2. k.hi <= pool[b].pos
      BY <1>6, <1>9 DEF Mark
    <2>3. k.lo < k.hi /\ k.lo \in Nat /\ k.hi \in Nat /\ pool[b].pos \in Nat
      BY <1>6, <1>9 DEF BlockType, PoolType, Addr
    <2>. QED
      BY <1>8, <2>1, <2>2, <2>3
  <1>11. \A k \in blocks : k.from = b /\ k.lo = ptr => k = top
    <2>. SUFFICES ASSUME NEW k \in blocks, k.from = b, k.lo = ptr, k # top
                  PROVE  FALSE
      OBVIOUS
    <2>1. k.hi <= ptr /\ k.lo < k.hi
      BY <1>9, <1>10
    <2>2. k.hi \in Nat /\ ptr \in Nat
      BY <1>1, <1>6 DEF BlockType, Addr
    <2>. QED
      BY <2>1, <2>2
  <1>12. /\ moved(top) \in BlockType /\ moved(top).from = b
         /\ moved(top).lo = ptr /\ moved(top).hi = e /\ moved(top).size = n
    <2>1. top \in BlockType
      BY <1>6
    <2>. QED
      BY <1>1, <1>2, <1>8, <2>1 DEF BlockType
  <1>13. moved(top) \in blocks' /\ \A k \in blocks \ {top} : k \in blocks'
    BY <1>5, <1>8, <1>11
  <1>14. \A k \in blocks' : k = moved(top) \/ (k \in blocks /\ k # top)
    BY <1>5, <1>8, <1>11
  <1>. HIDE DEF moved
  <1>15. \A g \in Bank \cup {Scratch} :
             /\ Bottom(g)' = Bottom(g)
             /\ g # b => Mark(g)' = Mark(g)
    BY <1>5, <1>7 DEF Mark, Bottom
  <1>16. Mark(b)' = e /\ Mark(b) = pool[b].pos /\ Bottom(b) <= ptr
    BY <1>6, <1>7, <1>8, <1>9 DEF Mark
  <1>17. \A k \in blocks' :
             /\ k.lo < k.hi /\ k.lo + k.size <= k.hi
             /\ Bottom(k.from)' <= k.lo /\ k.hi <= Mark(k.from)'
    <2>. TAKE k \in blocks'
    <2>1. CASE k = moved(top)
      <3>1. k.from = b /\ k.lo = ptr /\ k.hi = e /\ k.size = n
        BY <1>12, <2>1
      <3>2. Bottom(k.from)' = Bottom(b) /\ Mark(k.from)' = e
        BY <1>15, <1>16, <3>1
      <3>. QED
        BY <1>2, <1>3, <1>16, <3>1, <3>2 DEF Addr
    <2>2. CASE k \in blocks /\ k # top /\ k.from = b
      <3>1. k.hi <= e
        <4>1. k.hi \in Nat /\ ptr \in Nat /\ e \in Nat
          BY <1>1, <1>2, <1>6, <2>2 DEF BlockType, Addr
        <4>. QED
          BY <1>3, <1>10, <2>2, <4>1
      <3>2. Bottom(k.from)' = Bottom(k.from) /\ Mark(k.from)' = e
        BY <1>15, <1>16, <2>2
      <3>. QED
        BY <1>9, <2>2, <3>1, <3>2
    <2>3. CASE k \in blocks /\ k.from # b
      <3>1. Bottom(k.from)' = Bottom(k.from) /\ Mark(k.from)' = Mark(k.from)
        BY <1>6, <1>15, <2>3 DEF BlockType
      <3>. QED
        BY <1>9, <2>3, <3>1
    <2>. QED
      BY <1>14, <2>1, <2>2, <2>3
  <1>18. \A k, l \in blocks' : k # l /\ k.from = l.from =>
                                k.hi <= l.lo \/ l.hi <= k.lo
    BY <1>10, <1>12, <1>14 DEF MempInv, BlocksDisjoint
  <1>19. TypeOK'
    <2>1. backed' \subseteq Addr
      BY <1>5 DEF MempInv, TypeOK, Covered
    <2>2. 1 \in Addr
      BY MempAssumption DEF Addr
    <2>3. blocks' \subseteq BlockType
      BY <1>6, <1>12, <1>14
    <2>. QED
      BY <1>5, <1>7, <2>1, <2>2, <2>3 DEF MempInv, TypeOK, BlockType, PoolType
  <1>20. \A c \in Bank : PoolKept(pool'[c], c)
    <2>1. PoolKept(pool'[b], b)
      <3>1. pool[b].start = Start[b] /\ pool[b].end = End[b]
        BY <1>4 DEF MempInv, PoolKept, Usable, ZeroPool
      <3>2. Bottom(b) = pool[b].start
        BY <1>6 DEF Bottom
      <3>3. pool[b].start \in Nat /\ ptr \in Nat /\ e \in Nat
        BY <1>1, <1>2, <1>6 DEF PoolType, Addr
      <3>. QED
        BY <1>3, <1>4, <1>7, <1>16, <3>1, <3>2, <3>3 DEF PoolKept
    <2>. QED
      BY <1>7, <2>1 DEF MempInv
  <1>21. LastBlockOnTop'
    <2>1. ASSUME NEW c \in Bank, pool'[c].prevpos # 0
          PROVE  \E k \in blocks' : /\ k.from = c /\ k.lo = pool'[c].prevpos
                                   /\ k.hi = pool'[c].pos
      <3>1. CASE c = b
        BY <1>4, <1>7, <1>12, <1>13, <3>1
      <3>2. CASE c # b
        <4>1. pool'[c] = pool[c]
          BY <1>7, <3>2
        <4>2. PICK k \in blocks : /\ k.from = c /\ k.lo = pool[c].prevpos
                                  /\ k.hi = pool[c].pos
          BY <2>1, <4>1 DEF MempInv, LastBlockOnTop
        <4>3. k \in blocks'
          BY <1>8, <1>13, <3>2, <4>2
        <4>. QED
          BY <4>1, <4>2, <4>3
      <3>. QED
        BY <3>1, <3>2
    <2>. QED
      BY <2>1 DEF LastBlockOnTop
  <1>. QED
    BY <1>5, <1>17, <1>18, <1>19, <1>20, <1>21 DEF MempInv, BlocksDisjoint

(* A resize that only makes a record tells the game a size and leaves what
   was set aside as it is. *)
LEMMA RecordResizeKeeps ==
    ASSUME MempInv, NEW ptr \in Addr, NEW n \in Addr, ResizeRecord(ptr, n)
    PROVE  MempInv'
  <1>. DEFINE told(k) == [k EXCEPT !.told = n]
              after(k) == IF k.lo = ptr THEN told(k) ELSE k
  <1>1. /\ blocks' = {after(k) : k \in blocks}
        /\ backed' = backed \cup Covered(ptr, n)
        /\ r2' = 1 /\ pool' = pool /\ cursor' = cursor
    BY DEF ResizeRecord
  <1>2. \A k \in blocks : /\ after(k) \in BlockType /\ after(k).from = k.from
                          /\ after(k).lo = k.lo /\ after(k).hi = k.hi
                          /\ after(k).size = k.size
    BY DEF MempInv, TypeOK, BlockType
  <1>. HIDE DEF after
  <1>3. \A k \in blocks' : \E j \in blocks : k = after(j)
    BY <1>1
  <1>4. \A f \in Bank \cup {Scratch} : Mark(f)' = Mark(f) /\ Bottom(f)' = Bottom(f)
    BY <1>1 DEF Mark, Bottom
  <1>5. \A k \in blocks' : /\ k.lo < k.hi /\ k.lo + k.size <= k.hi
                           /\ Bottom(k.from)' <= k.lo /\ k.hi <= Mark(k.from)'
    <2>. TAKE k \in blocks'
    <2>1. PICK j \in blocks : k = after(j)
      BY <1>3
    <2>2. j.from \in Bank \cup {Scratch}
      BY DEF MempInv, TypeOK
    <2>3. Bottom(k.from)' = Bottom(j.from) /\ Mark(k.from)' = Mark(j.from)
      BY <1>2, <1>4, <2>1, <2>2
    <2>. QED
      BY <1>2, <2>1, <2>3 DEF MempInv, BlocksDisjoint
  <1>6. \A k, l \in blocks' : k # l /\ k.from = l.from =>
                               k.hi <= l.lo \/ l.hi <= k.lo
    BY <1>2, <1>3 DEF MempInv, BlocksDisjoint
  <1>7. TypeOK'
    <2>1. backed' \subseteq Addr
      BY <1>1 DEF MempInv, TypeOK, Covered
    <2>2. 1 \in Addr
      BY MempAssumption DEF Addr
    <2>3. blocks' \subseteq BlockType
      BY <1>2, <1>3
    <2>. QED
      BY <1>1, <2>1, <2>2, <2>3 DEF MempInv, TypeOK, BlockType
  <1>8. LastBlockOnTop'
    <2>1. ASSUME NEW c \in Bank, pool[c].prevpos # 0
          PROVE  \E k \in blocks' : /\ k.from = c /\ k.lo = pool[c].prevpos
                                   /\ k.hi = pool[c].pos
      <3>1. PICK k \in blocks : /\ k.from = c /\ k.lo = pool[c].prevpos
                                /\ k.hi = pool[c].pos
        BY <2>1 DEF MempInv, LastBlockOnTop
      <3>2. after(k) \in blocks'
        BY <1>1
      <3>. QED
        BY <1>2, <3>1, <3>2
    <2>. QED
      BY <1>1, <2>1 DEF LastBlockOnTop
  <1>. QED
    BY <1>1, <1>5, <1>6, <1>7, <1>8 DEF MempInv, BlocksDisjoint

(* A resize, in a pool, through the table or refused. *)
LEMMA ResizeKeeps ==
    ASSUME MempInv, ResizeContract, NEW ptr \in Pointers, NEW n \in ResizeSizes,
           NEW b \in Bank \cup {NoBank}, mempAddEntryOfSizeToBank(ptr, n, b)
    PROVE  MempInv'
  <1>. DEFINE rb == ResizedBank(ptr, b)
  <1>1. CASE InPool(ptr, n, rb) /\ ResizeLast(ptr, n, rb)
    <2>1. rb \in Bank
      BY <1>1 DEF InPool
    <2>. HIDE DEF rb
    <2>. QED
      BY <1>1, <2>1, LastResizeKeeps
  <1>2. CASE ResizeRecord(ptr, n)
    BY <1>2, RecordResizeKeeps, MempAssumption
  <1>3. CASE r2' = 0 /\ UNCHANGED <<pool, cursor, backed, blocks>>
    BY <1>3, NothingMoves DEF MempInv, TypeOK
  <1>. QED
    BY <1>1, <1>2, <1>3 DEF mempAddEntryOfSizeToBank

-----------------------------------------------------------------------------
(* Every step keeps the invariant. *)
LEMMA MempStep ==
    ASSUME ResizeContract, MempInv, [Next]_vars
    PROVE  MempInv'
  <1>1. CASE UNCHANGED vars
    BY <1>1 DEF vars, MempInv, TypeOK, BlocksDisjoint, LastBlockOnTop, Mark,
                Bottom
  <1>2. ASSUME NEW b \in Bank, SetBank(b)
        PROVE  MempInv'
    BY <1>2, SetBankKeeps
  <1>3. ASSUME NEW b \in Bank \cup {NoBank}, NEW n \in AllocSizes,
               mempAllocBytesInBank(b, n)
        PROVE  MempInv'
    BY <1>3, AllocationKeeps, MempAssumption
  <1>4. ASSUME NEW ptr \in Pointers, NEW n \in ResizeSizes,
               NEW b \in Bank \cup {NoBank}, mempAddEntryOfSizeToBank(ptr, n, b)
        PROVE  MempInv'
    BY <1>4, ResizeKeeps
  <1>. QED
    BY <1>1, <1>2, <1>3, <1>4 DEF Next

(* The invariant holds at every moment, given the contract of the resizes. *)
LEMMA MempInvariant ==
    ASSUME ResizeContract
    PROVE  Spec => []MempInv
  <1>1. ResizeContract /\ MempInv /\ [Next]_vars => MempInv'
    BY MempStep
  <1>. QED
    BY <1>1, MempInit, PTL DEF Spec

(* The pool table, the cursor and the blocks keep their types: for every
   granule and address width no word of a pool leaves its width. *)
THEOREM TypeCorrect ==
    ASSUME ResizeContract
    PROVE  Spec => []TypeOK
  <1>1. MempInv => TypeOK
    BY DEF MempInv
  <1>. QED
    BY <1>1, MempInvariant, PTL

(* Every bank stays inside the region the game gave it, for every size asked
   for, those that wrap the address space included. *)
THEOREM PoolsStayInBounds ==
    ASSUME ResizeContract
    PROVE  Spec => []PoolsInBounds
  <1>1. MempInv => PoolsInBounds
    <2>. SUFFICES ASSUME MempInv, NEW b \in Bank
                  PROVE  pool[b].start <= pool[b].pos /\ pool[b].pos <= pool[b].end
      BY DEF PoolsInBounds
    <2>1. PoolKept(pool[b], b)
      BY DEF MempInv
    <2>. QED
      BY <2>1 DEF PoolKept, ZeroPool
  <1>. QED
    BY <1>1, MempInvariant, PTL

(* What was set aside for two blocks of one source never overlaps, after any
   number of allocations, resizes and bank resets. *)
THEOREM BlocksStayDisjoint ==
    ASSUME ResizeContract
    PROVE  Spec => []BlocksDisjoint
  <1>1. MempInv => BlocksDisjoint
    BY DEF MempInv
  <1>. QED
    BY <1>1, MempInvariant, PTL

(* prevpos names the block under the mark: what is resized in place is always
   the last block. *)
THEOREM LastBlockStaysOnTop ==
    ASSUME ResizeContract
    PROVE  Spec => []LastBlockOnTop
  <1>1. MempInv => LastBlockOnTop
    BY DEF MempInv
  <1>. QED
    BY <1>1, MempInvariant, PTL
=============================================================================
