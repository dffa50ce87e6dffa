----------------------------- MODULE Resources -----------------------------
(***************************************************************************)
(* What is in guest memory and what the resource table says of it          *)
(* (runtime.cpp, stubs.cpp).                                               *)
(*                                                                         *)
(* goldeneye_runtime_init copies the ROM's sections and the compressed     *)
(* data; afterwards the game's transfers, the csegment restore, the memory *)
(* pools and the decompression wrapper write memory and append records to  *)
(* g_resources.  Nothing is ever taken out: the newest record that covers  *)
(* an address answers for it.                                              *)
(*                                                                         *)
(* Addresses are few, and mem says of every cell what its content is made  *)
(* of.  Blocks lie in a window of the address space or outside: those that *)
(* run over a window's end are GuestMemory's.  Banks are left out, and so  *)
(* is where a pool takes a block from, which is Memp's.                    *)
(***************************************************************************)
EXTENDS Integers, Sequences, Functions

CONSTANTS
    Top,           \* addresses are 0..Top
    CellOf,        \* CellOf[v]: the cell an address shows, 0 for none
    RomSizes,      \* lengths a ROM file may have; -1 if it cannot be read
    Sections,      \* kSections: where each is in the ROM and in memory
    CdataRom,      \* kCdataRomStart
    CdataSize,     \* kInflateRomEnd - kCdataRomStart
    CsegStart,     \* kCsegmentRamStart
    CsegSize,      \* kCsegmentElfFileSize
    ElfSource,     \* kCsegmentElfFileOffset
    Bridges,       \* whether GOLDENEYE_ENABLE_DECOMPRESS_BRIDGE is set
    RzWords,       \* the address of the inflater's five pointers
    DmaSources,    \* device addresses the game transfers from
    DmaBlocks,     \* addresses and sizes it transfers to
    PoolBlocks,    \* addresses and sizes the pools hand out
    Resizes,       \* addresses and sizes it resizes to
    Sources,       \* where it decompresses from
    Targets,       \* where it decompresses to
    MaxInflated,   \* bound: how much the inflater puts out
    Stored,        \* addresses of words that are stored
    MaxCalls       \* bound: calls after the initialisation

Address == 0..Top
Cell == {CellOf[v] : v \in Address} \ {0}

Kinds == {"rom_dma", "cdata_preload", "csegment_elf_restore", "memp_alloc",
          "memp_resize", "decompress_stub"}

Record == [kind : Kinds, vaddr : Nat \ {0}, size : Nat \ {0}, source : Nat]

Span(v, n) == v..(v + n - 1)

Blocks == (Nat \ {0}) \X Nat

(* No cell is shown twice by the addresses of B. *)
Once(B) ==
    \A v, w \in B \cap Address :
        CellOf[v] = CellOf[w] /\ CellOf[v] # 0 => v = w

ASSUME ResourceAssumption ==
    /\ Top \in Nat
    /\ CellOf \in [Address -> Nat] /\ CellOf[0] = 0
    /\ RomSizes \subseteq Nat \cup {-1}
    /\ Sections \in Seq([rom : Nat, ram : Nat \ {0}, size : Nat])
    /\ CdataRom \in Nat /\ CdataSize \in Nat \ {0}
    /\ CsegStart \in Nat \ {0} /\ CsegSize \in Nat \ {0} /\ ElfSource \in Nat
    /\ CdataSize <= CsegSize
    /\ Bridges \subseteq BOOLEAN
    /\ RzWords \in Address /\ CellOf[RzWords] # 0
    /\ DmaSources \subseteq Nat
    /\ DmaBlocks \cup PoolBlocks \cup Resizes \subseteq Blocks
    /\ Sources \subseteq Nat /\ Targets \subseteq Nat
    /\ Stored \subseteq Address
    /\ MaxInflated \in Nat /\ MaxCalls \in Nat

(* No block that is written reaches from one view of a cell to another. *)
ASSUME BlockAssumption ==
    /\ \A i \in DOMAIN Sections : Once(Span(Sections[i].ram, Sections[i].size))
    /\ Once(Span(CsegStart, CsegSize))
    /\ \A b \in DmaBlocks \cup PoolBlocks : Once(Span(b[1], b[2]))
    /\ \A target \in Targets, n \in 0..MaxInflated :
          Once(Span(target, n) \cup {RzWords})

VARIABLES
    bridge,      \* the setting of the decompression bridge
    rom,         \* the length of g_rom_bytes
    phase,       \* "load", "sections", "cdata", "run", or "failed"
    next,        \* the section to load next
    mem,         \* what each cell holds
    resources,   \* g_resources
    copies,      \* g_diag.dma_copies
    bytes,       \* g_diag.dma_bytes
    state,       \* the tallies of GoldenEyeRuntimeState
    calls,       \* calls after the initialisation
    stale        \* history: addresses whose cell was changed behind their
                 \* newest record

vars == <<bridge, rom, phase, next, mem, resources, copies, bytes, state,
          calls, stale>>

boot == <<rom, phase, next, state>>

(* Contents besides <<"rom", address>>, <<"elf", offset>> and
   <<"inflated", source>>. *)
Zero == <<"zero">>
Word == <<"word">>

NoRecord == [kind |-> "unknown", vaddr |-> 0, size |-> 0, source |-> 0]

(* The block fits a window: its first address is in one. *)
Translates(v) == v \in Address /\ CellOf[v] # 0

Shown(B) == {CellOf[v] : v \in B \cap Address} \ {0}

(* Other addresses that show cells of B, which is written through its own. *)
Aliases(B) == {w \in Address \ B : CellOf[w] \in Shown(B)}

-----------------------------------------------------------------------------
Covers(r, v) == r.vaddr <= v /\ v < r.vaddr + r.size

(* A wrong form: the oldest record that covers the address answers. *)
AnswersOldest(s, v, i) ==
    /\ Covers(s[i], v)
    /\ \A j \in 1..(i - 1) : ~Covers(s[j], v)

(* The search from the newest record down ends at i. *)
Answers(s, v, i) ==
    /\ Covers(s[i], v)
    /\ \A j \in (i + 1)..Len(s) : ~Covers(s[j], v)

(* goldeneye_runtime_find_resource; all its callers ask for one byte. *)
Find(s, v) ==
    IF \E i \in DOMAIN s : Answers(s, v, i)
    THEN s[CHOOSE i \in DOMAIN s : Answers(s, v, i)]
    ELSE NoRecord

(* A wrong form: the empty block is recorded too. *)
RecordedAlways(s, kind, v, n, source) ==
    Append(s, [kind |-> kind, vaddr |-> v, size |-> n, source |-> source])

(* goldeneye_runtime_record_resource *)
Recorded(s, kind, v, n, source) ==
    IF v = 0 \/ n = 0 THEN s
    ELSE Append(s, [kind |-> kind, vaddr |-> v, size |-> n,
                    source |-> source])

(* The cell of each address v of B gets data[v], the others keep theirs. *)
Written(B, data) ==
    mem' = [c \in Cell |->
              IF c \in Shown(B)
              THEN data[CHOOSE v \in B \cap Address : CellOf[v] = c]
              ELSE mem[c]]

(* B was written and is recorded: its addresses are answered for truly. *)
Fresh(B) == stale' = (stale \ B) \cup Aliases(B)

(* B was written without a record. *)
Unrecorded(B) == stale' = stale \cup {w \in Address : CellOf[w] \in Shown(B)}

Init ==
    /\ bridge \in Bridges
    /\ rom = 0
    /\ phase = "load"
    /\ next = 1
    /\ mem = [c \in Cell |-> Zero]
    /\ resources = <<>>
    /\ copies = 0
    /\ bytes = 0
    /\ state = [copied |-> 0, skipped |-> 0, bytes |-> 0, cdata |-> 0]
    /\ calls = 0
    /\ stale = {}

-----------------------------------------------------------------------------
(* The copy's bounds, which keep the sum from wrapping. *)
Fits(from, v, n) == from <= rom /\ n <= rom - from /\ Translates(v)

(* What n bytes of the ROM put at the addresses from v on. *)
FromRom(from, v, n) == [w \in Span(v, n) |-> <<"rom", from + (w - v)>>]

(* A wrong form: the size of a copy is not added up. *)
CopyCountedOnce(from, v, n) ==
    /\ Written(Span(v, n), FromRom(from, v, n))
    /\ Fresh(Span(v, n))
    /\ copies' = copies + 1
    /\ bytes' = bytes + 1

(* goldeneye_runtime_copy_rom_to_vaddr past its bounds, but for the record,
   which its callers here add to the table. *)
Copy(from, v, n) ==
    /\ Written(Span(v, n), FromRom(from, v, n))
    /\ Fresh(Span(v, n))
    /\ copies' = copies + 1
    /\ bytes' = bytes + n

NoCopy == UNCHANGED <<mem, stale, copies, bytes, resources>>

RomRecord(from, v, n) == Recorded(resources, "rom_dma", v, n, from)

(* load_rom_file: without a ROM the initialisation fails. *)
LoadRom(length) ==
    /\ phase = "load"
    /\ phase' = IF length = -1 THEN "failed" ELSE "sections"
    /\ rom' = IF length = -1 THEN 0 ELSE length
    /\ UNCHANGED <<bridge, next, mem, resources, copies, bytes, state, calls,
                   stale>>

(* One turn of the loop over kSections. *)
LoadSection ==
    /\ phase = "sections"
    /\ next <= Len(Sections)
    /\ next' = next + 1
    /\ LET s == Sections[next] IN
       \/ /\ Fits(s.rom, s.ram, s.size)
          /\ Copy(s.rom, s.ram, s.size)
          /\ resources' = RomRecord(s.rom, s.ram, s.size)
          /\ state' = [state EXCEPT !.copied = @ + 1, !.bytes = @ + s.size]
       \/ /\ ~Fits(s.rom, s.ram, s.size)
          /\ NoCopy
          /\ state' = [state EXCEPT !.skipped = @ + 1]
    /\ UNCHANGED <<bridge, rom, phase, calls>>

(* A wrong form: the preload is recorded whether or not it was copied. *)
PreloadCdataAnyway ==
    /\ phase = "sections"
    /\ next > Len(Sections)
    /\ phase' = "run"
    /\ resources' = Recorded(resources, "cdata_preload", CsegStart,
                             CdataSize, CdataRom)
    /\ \/ /\ Fits(CdataRom, CsegStart, CdataSize)
          /\ Copy(CdataRom, CsegStart, CdataSize)
          /\ state' = [state EXCEPT !.cdata = CdataSize]
       \/ /\ ~Fits(CdataRom, CsegStart, CdataSize)
          /\ UNCHANGED <<mem, stale, copies, bytes, state>>
    /\ UNCHANGED <<bridge, rom, next, calls>>

(* The compressed data, recorded a second time under its own name. *)
PreloadCdata ==
    /\ phase = "sections"
    /\ next > Len(Sections)
    /\ phase' = "run"
    /\ \/ /\ Fits(CdataRom, CsegStart, CdataSize)
          /\ Copy(CdataRom, CsegStart, CdataSize)
          /\ resources' = Recorded(RomRecord(CdataRom, CsegStart, CdataSize),
                                   "cdata_preload", CsegStart, CdataSize,
                                   CdataRom)
          /\ state' = [state EXCEPT !.cdata = CdataSize]
       \/ /\ ~Fits(CdataRom, CsegStart, CdataSize)
          /\ NoCopy
          /\ UNCHANGED state
    /\ UNCHANGED <<bridge, rom, next, calls>>

-----------------------------------------------------------------------------
Called ==
    /\ phase = "run"
    /\ calls < MaxCalls
    /\ calls' = calls + 1
    /\ UNCHANGED <<bridge, boot>>

(* osPiStartDma and osPiRawStartDma.  Both directions read the ROM. *)
StartDma(from, v, n) ==
    /\ Called
    /\ \/ /\ Fits(from, v, n)
          /\ Copy(from, v, n)
          /\ resources' = RomRecord(from, v, n)
       \/ ~Fits(from, v, n) /\ NoCopy

(* initTLBPrepareContext with the first k cells read, all of them or fewer:
   the read may break off, and a file that is absent or short gives none. *)
RestoreCsegment(k) ==
    /\ Called
    /\ Written(Span(CsegStart, k),
               [w \in Span(CsegStart, k) |-> <<"elf", w - CsegStart>>])
    /\ \/ /\ k = CsegSize
          /\ Fresh(Span(CsegStart, k))
          /\ resources' = Recorded(resources, "csegment_elf_restore",
                                   CsegStart, CsegSize, ElfSource)
       \/ /\ k < CsegSize
          /\ Unrecorded(Span(CsegStart, k))
          /\ UNCHANGED resources
    /\ UNCHANGED <<copies, bytes>>

(* mempAllocBytesInBank hands a block out, cleared. *)
Allocate(v, n) ==
    /\ Called
    /\ n # 0 /\ Translates(v)
    /\ Written(Span(v, n), [w \in Span(v, n) |-> Zero])
    /\ Fresh(Span(v, n))
    /\ resources' = Recorded(resources, "memp_alloc", v, n, 0)
    /\ UNCHANGED <<copies, bytes>>

(* mempAddEntryOfSizeToBank of a pool's last block. *)
ResizeInPool(v, n) ==
    /\ Called
    /\ n # 0
    /\ \E i \in DOMAIN resources :
          resources[i].kind = "memp_alloc" /\ resources[i].vaddr = v
    /\ resources' = Recorded(resources, "memp_resize", v, n, 0)
    /\ UNCHANGED <<mem, stale, copies, bytes>>

(* And of any other address the table answers for, which is granted. *)
ResizeByRecord(v, n) ==
    /\ Called
    /\ n # 0 /\ Find(resources, v) # NoRecord
    /\ resources' = Recorded(resources, "memp_resize", v, n,
                             Find(resources, v).source)
    /\ UNCHANGED <<mem, stale, copies, bytes>>

(* decompressdata without the bridge: nothing is written, one address is
   recorded. *)
DecompressStub(source, target) ==
    /\ Called
    /\ ~bridge
    /\ resources' = Recorded(resources, "decompress_stub", target, 1, source)
    /\ UNCHANGED <<mem, stale, copies, bytes>>

(* decompressdata with the bridge: the generated inflater starts from five
   words that the bridge stores, writes n cells at the target and leaves
   where it stopped in one of them, or leaves 0 when it fails. *)
DecompressBridge(source, target, n, done) ==
    LET out == Span(target, n)
        wp == IF done THEN target + n ELSE 0
    IN
    /\ Called
    /\ bridge
    /\ RzWords \notin out
    /\ Written(out \cup {RzWords},
               [w \in out \cup {RzWords} |->
                  IF w = RzWords THEN Word ELSE <<"inflated", source>>])
    /\ \/ /\ target # 0 /\ wp > target
          /\ resources' = Recorded(resources, "decompress_stub", target,
                                   wp - target, source)
          /\ stale' = (stale \ out) \cup Aliases(out)
                        \cup {w \in Address : CellOf[w] \in Shown({RzWords})}
       \/ /\ target = 0 \/ wp <= target
          /\ Unrecorded(out \cup {RzWords})
          /\ UNCHANGED resources
    /\ UNCHANGED <<copies, bytes>>

(* The game stores a word, or a stub does: a queue, a pool's entry, a frame
   counter. *)
StoreWord(v) ==
    /\ Called
    /\ Written({v}, [w \in {v} |-> Word])
    /\ Unrecorded({v})
    /\ UNCHANGED <<resources, copies, bytes>>

Next ==
    \/ \E length \in RomSizes : LoadRom(length)
    \/ LoadSection
    \/ PreloadCdata
    \/ \E from \in DmaSources, b \in DmaBlocks : StartDma(from, b[1], b[2])
    \/ \E k \in 0..CsegSize : RestoreCsegment(k)
    \/ \E b \in PoolBlocks : Allocate(b[1], b[2])
    \/ \E b \in Resizes : ResizeInPool(b[1], b[2]) \/ ResizeByRecord(b[1], b[2])
    \/ \E source \in Sources, target \in Targets :
          \/ DecompressStub(source, target)
          \/ \E n \in 0..MaxInflated, done \in BOOLEAN :
                DecompressBridge(source, target, n, done)
    \/ \E v \in Stored : StoreWord(v)

Spec == Init /\ [][Next]_vars

-----------------------------------------------------------------------------
TypeOK ==
    /\ bridge \in BOOLEAN /\ rom \in Nat
    /\ phase \in {"load", "sections", "run", "failed"}
    /\ next \in 1..(Len(Sections) + 1)
    /\ DOMAIN mem = Cell
    /\ resources \in Seq(Record)
    /\ copies \in Nat /\ bytes \in Nat
    /\ state \in [copied : Nat, skipped : Nat, bytes : Nat, cdata : Nat]
    /\ calls \in 0..MaxCalls
    /\ stale \subseteq Address

(* What the record that answers for v says of the content there.  A resize
   and the decompression stub write nothing and say nothing of it. *)
Tells(r, v, content) ==
    /\ r = NoRecord => content = Zero
    /\ r.kind \in {"rom_dma", "cdata_preload"} =>
          content = <<"rom", r.source + (v - r.vaddr)>>
    /\ r.kind = "csegment_elf_restore" => content = <<"elf", v - r.vaddr>>
    /\ r.kind = "memp_alloc" => content = Zero
    /\ r.kind = "decompress_stub" /\ bridge =>
          content = <<"inflated", r.source>>

(* What a record of a write says is what is there, and what no record covers
   was never written, unless the cell was changed behind the table: by a
   stored word, a restore or an inflation that broke off, or a copy through
   the other view of the same memory. *)
AnswersTrue ==
    \A v \in Address \ stale :
        Translates(v) => Tells(Find(resources, v), v, mem[CellOf[v]])

(* The reports that are printed agree: the sections' tallies, the copies and
   the records of copies, kept in three places. *)
OfKind(kind) == {i \in DOMAIN resources : resources[i].kind = kind}

ReportsAgree ==
    /\ bytes = SumFunction([i \in OfKind("rom_dma") |-> resources[i].size])
    /\ state.copied + state.skipped = next - 1
    /\ calls = 0 => /\ bytes = state.bytes + state.cdata
                    /\ copies = state.copied
                                  + (IF state.cdata = 0 THEN 0 ELSE 1)
    /\ phase = "run" =>
          (OfKind("cdata_preload") = {} <=> state.cdata = 0)

(* The table, searched from its end, is the map of each address to the last
   thing noted about it. *)
Owner == [v \in Address |-> Find(resources, v)]

Map == INSTANCE ProvenanceMap WITH owner <- Owner, None <- NoRecord

ImplementsMap == Map!Spec
=============================================================================
