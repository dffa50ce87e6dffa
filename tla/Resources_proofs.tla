------------------------- MODULE Resources_proofs -------------------------
(***************************************************************************)
(* The resource table, for any memory, sections and blocks and any number  *)
(* of calls: the search from its end implements the map of ProvenanceMap,  *)
(* what it answers of a write is what is there, and the reports that are   *)
(* printed from it and from the counters agree.                            *)
(***************************************************************************)
EXTENDS Resources, SumTheorems, SequenceTheorems, FiniteSetTheorems, TLAPS

-----------------------------------------------------------------------------
(* One record at most ends the search. *)
LEMMA AnswerIsOne ==
    ASSUME NEW s \in Seq(Record), NEW v,
           NEW i \in DOMAIN s, NEW k \in DOMAIN s,
           Answers(s, v, i), Answers(s, v, k)
    PROVE  i = k
  <1>1. i \in 1..Len(s) /\ k \in 1..Len(s) /\ Len(s) \in Nat
    OBVIOUS
  <1>2. ~(i < k) /\ ~(k < i)
    BY <1>1 DEF Answers
  <1>. QED
    BY <1>1, <1>2

(* It is the one that is found. *)
LEMMA FindIs ==
    ASSUME NEW s \in Seq(Record), NEW v, NEW i \in DOMAIN s,
           Answers(s, v, i)
    PROVE  Find(s, v) = s[i]
  <1>. DEFINE k == CHOOSE j \in DOMAIN s : Answers(s, v, j)
  <1>1. k \in DOMAIN s /\ Answers(s, v, k)
    OBVIOUS
  <1>2. k = i
    BY <1>1, AnswerIsOne
  <1>. QED
    BY <1>2 DEF Find

(* A new record answers for its block and changes no other answer. *)
LEMMA FindAppended ==
    ASSUME NEW s \in Seq(Record), NEW r \in Record, NEW v
    PROVE  Find(Append(s, r), v) = IF Covers(r, v) THEN r ELSE Find(s, v)
  <1>. DEFINE t == Append(s, r)
              last == Len(s) + 1
  <1>1. /\ t \in Seq(Record) /\ Len(s) \in Nat
        /\ DOMAIN t = 1..last /\ DOMAIN s = 1..Len(s) /\ Len(t) = last
        /\ t[last] = r /\ \A i \in 1..Len(s) : t[i] = s[i]
    OBVIOUS
  <1>. HIDE DEF t
  <1>2. CASE Covers(r, v)
    <2>1. Answers(t, v, last)
      BY <1>1, <1>2 DEF Answers
    <2>2. last \in DOMAIN t
      BY <1>1
    <2>3. Find(t, v) = t[last]
      BY <1>1, <2>1, <2>2, FindIs
    <2>. QED
      BY <1>1, <1>2, <2>3 DEF t
  <1>3. CASE ~Covers(r, v)
    <2>1. ~Answers(t, v, last)
      BY <1>1, <1>3 DEF Answers
    <2>2. ASSUME NEW i \in 1..Len(s)
          PROVE  Answers(t, v, i) <=> Answers(s, v, i)
      <3>1. t[i] = s[i] /\ \A j \in (i + 1)..Len(s) : t[j] = s[j]
        BY <1>1
      <3>2. (i + 1)..Len(t) = ((i + 1)..Len(s)) \cup {last}
        BY <1>1
      <3>. QED
        BY <1>1, <1>3, <3>1, <3>2 DEF Answers
    <2>3. CASE \E i \in DOMAIN s : Answers(s, v, i)
      <3>1. PICK i \in 1..Len(s) : Answers(s, v, i)
        BY <1>1, <2>3
      <3>2. i \in DOMAIN t /\ Answers(t, v, i)
        BY <1>1, <2>2, <3>1
      <3>3. Find(s, v) = s[i] /\ Find(t, v) = t[i]
        BY <1>1, <3>1, <3>2, FindIs
      <3>. QED
        BY <1>1, <1>3, <3>3 DEF t
    <2>4. CASE ~\E i \in DOMAIN s : Answers(s, v, i)
      <3>1. ~\E i \in DOMAIN t : Answers(t, v, i)
        BY <1>1, <2>1, <2>2, <2>4
      <3>. QED
        BY <1>3, <2>4, <3>1 DEF Find, t
    <2>. QED
      BY <2>3, <2>4
  <1>. QED
    BY <1>2, <1>3

(* What the search answers covers the address that was asked for. *)
LEMMA FindType ==
    ASSUME NEW s \in Seq(Record), NEW v
    PROVE  \/ Find(s, v) \in Record /\ Covers(Find(s, v), v)
           \/ Find(s, v) = NoRecord
  <1>1. CASE \E i \in DOMAIN s : Answers(s, v, i)
    <2>1. PICK i \in DOMAIN s : Answers(s, v, i)
      BY <1>1
    <2>2. Find(s, v) = s[i] /\ s[i] \in Record
      BY <2>1, FindIs
    <2>. QED
      BY <2>1, <2>2 DEF Answers
  <1>2. CASE ~\E i \in DOMAIN s : Answers(s, v, i)
    BY <1>2 DEF Find
  <1>. QED
    BY <1>1, <1>2

(* The record of a block. *)
Entry(kind, v, n, source) ==
    [kind |-> kind, vaddr |-> v, size |-> n, source |-> source]

(* Recording keeps the table's type. *)
LEMMA FindRecorded ==
    ASSUME NEW s \in Seq(Record), NEW kind \in Kinds, NEW v \in Nat,
           NEW n \in Nat, NEW source \in Nat
    PROVE  Recorded(s, kind, v, n, source) \in Seq(Record)
  <1>1. v # 0 /\ n # 0 => Entry(kind, v, n, source) \in Record
    BY DEF Entry, Record
  <1>. QED
    BY <1>1 DEF Recorded, Entry

(* The record answers for its block from then on; an empty block changes
   nothing. *)
LEMMA FindAfter ==
    ASSUME NEW s \in Seq(Record), NEW kind \in Kinds, NEW v \in Nat, v # 0,
           NEW n \in Nat, NEW source \in Nat
    PROVE  \A w \in Address :
              Find(Recorded(s, kind, v, n, source), w) =
                 IF w \in Span(v, n) THEN Entry(kind, v, n, source)
                                     ELSE Find(s, w)
  <1>. TAKE w \in Address
  <1>0. w \in Nat
    BY ResourceAssumption DEF Address
  <1>1. CASE n = 0
    <2>1. w \notin Span(v, n)
      BY <1>0, <1>1 DEF Span
    <2>. QED
      BY <1>1, <2>1 DEF Recorded
  <1>2. CASE n # 0
    <2>. DEFINE r == Entry(kind, v, n, source)
    <2>1. r \in Record
      BY <1>2 DEF Entry, Record
    <2>2. Recorded(s, kind, v, n, source) = Append(s, r)
      BY <1>2 DEF Recorded, Entry
    <2>3. Covers(r, w) <=> w \in Span(v, n)
      BY <1>0 DEF Covers, Entry, Span
    <2>. HIDE DEF r
    <2>4. Find(Append(s, r), w) = IF Covers(r, w) THEN r ELSE Find(s, w)
      BY <2>1, FindAppended
    <2>. QED
      BY <2>2, <2>3, <2>4 DEF r
  <1>. QED
    BY <1>1, <1>2

-----------------------------------------------------------------------------
(* What the constants are, in the form the steps need. *)
LEMMA Constants ==
    /\ CdataRom \in Nat /\ CdataSize \in Nat \ {0} /\ CsegStart \in Nat \ {0}
    /\ CsegSize \in Nat \ {0} /\ ElfSource \in Nat
    /\ \A i \in 1..Len(Sections) :
          /\ Sections[i].rom \in Nat /\ Sections[i].ram \in Nat \ {0}
          /\ Sections[i].size \in Nat
    /\ \A b \in DmaBlocks \cup PoolBlocks \cup Resizes :
          b[1] \in Nat \ {0} /\ b[2] \in Nat
    /\ \A source \in Sources \cup DmaSources : source \in Nat
    /\ \A target \in Targets : target \in Nat
    /\ Len(Sections) \in Nat
  <1>1. \A b \in DmaBlocks \cup PoolBlocks \cup Resizes :
          b[1] \in Nat \ {0} /\ b[2] \in Nat
    BY ResourceAssumption DEF Blocks
  <1>2. /\ Len(Sections) \in Nat
        /\ \A i \in 1..Len(Sections) :
              Sections[i] \in [rom : Nat, ram : Nat \ {0}, size : Nat]
    <2>. DEFINE Row == [rom : Nat, ram : Nat \ {0}, size : Nat]
    <2>1. Sections \in Seq(Row)
      BY ResourceAssumption
    <2>. HIDE DEF Row
    <2>2. Len(Sections) \in Nat /\ \A i \in 1..Len(Sections) : Sections[i] \in Row
      BY <2>1
    <2>. QED
      BY <2>2 DEF Row
  <1>. QED
    BY <1>1, <1>2, ResourceAssumption

(* A copy moves the counters within their type. *)
LEMMA CopyType ==
    ASSUME TypeOK, NEW from, NEW v, NEW n \in Nat, Copy(from, v, n)
    PROVE  /\ DOMAIN mem' = Cell /\ copies' \in Nat /\ bytes' \in Nat
           /\ stale' \subseteq Address
  BY DEF TypeOK, Copy, Written, Fresh, Aliases

(* The variables keep their types. *)
LEMMA TypeKept == TypeOK /\ [Next]_vars => TypeOK'
  <1>. SUFFICES ASSUME TypeOK, [Next]_vars PROVE TypeOK'
    OBVIOUS
  <1>. USE Constants
  <1>0. resources \in Seq(Record) /\ calls \in Nat /\ next \in Nat
    BY ResourceAssumption DEF TypeOK
  <1>1. ASSUME NEW length \in RomSizes, LoadRom(length) PROVE TypeOK'
    BY <1>1, ResourceAssumption DEF TypeOK, LoadRom
  <1>2. CASE LoadSection
    <2>. DEFINE sec == Sections[next]
    <2>1. next \in 1..Len(Sections)
      BY <1>2 DEF TypeOK, LoadSection
    <2>2. sec.rom \in Nat /\ sec.ram \in Nat /\ sec.size \in Nat
      BY <2>1
    <2>3. RomRecord(sec.rom, sec.ram, sec.size) \in Seq(Record)
      BY <1>0, <2>2, FindRecorded DEF RomRecord, Kinds
    <2>. HIDE DEF sec
    <2>4. state' \in [copied : Nat, skipped : Nat, bytes : Nat, cdata : Nat]
      <3>1. \/ state' = [state EXCEPT !.copied = @ + 1, !.bytes = @ + sec.size]
            \/ state' = [state EXCEPT !.skipped = @ + 1]
        BY <1>2 DEF LoadSection, sec
      <3>2. state \in [copied : Nat, skipped : Nat, bytes : Nat, cdata : Nat]
        BY DEF TypeOK
      <3>3. /\ state.copied + 1 \in Nat /\ state.bytes + sec.size \in Nat
            /\ state.skipped + 1 \in Nat
        BY <2>2, <3>2
      <3>. QED
        BY <3>1, <3>2, <3>3
    <2>6. resources' \in Seq(Record)
      BY <1>0, <1>2, <2>3 DEF LoadSection, NoCopy, sec
    <2>7. next' \in 1..(Len(Sections) + 1)
      BY <1>2, <2>1 DEF LoadSection
    <2>5. /\ DOMAIN mem' = Cell /\ copies' \in Nat /\ bytes' \in Nat
          /\ stale' \subseteq Address
      BY <1>2, <2>2, CopyType DEF LoadSection, TypeOK, NoCopy, sec
    <2>. QED
      BY <1>2, <2>4, <2>5, <2>6, <2>7 DEF LoadSection, TypeOK
  <1>3. CASE PreloadCdata
    <2>1. /\ RomRecord(CdataRom, CsegStart, CdataSize) \in Seq(Record)
          /\ Recorded(RomRecord(CdataRom, CsegStart, CdataSize),
                      "cdata_preload", CsegStart, CdataSize, CdataRom)
               \in Seq(Record)
      BY <1>0, FindRecorded DEF RomRecord, Kinds
    <2>2. /\ state' \in [copied : Nat, skipped : Nat, bytes : Nat, cdata : Nat]
          /\ resources' \in Seq(Record)
      BY <1>3, <2>1 DEF PreloadCdata, TypeOK, NoCopy
    <2>3. /\ DOMAIN mem' = Cell /\ copies' \in Nat /\ bytes' \in Nat
          /\ stale' \subseteq Address
      BY <1>3, CopyType DEF PreloadCdata, TypeOK, NoCopy
    <2>. QED
      BY <1>3, <2>2, <2>3 DEF PreloadCdata, TypeOK
  <1>4. ASSUME Called, resources' \in Seq(Record), DOMAIN mem' = Cell,
               copies' \in Nat, bytes' \in Nat, stale' \subseteq Address
        PROVE  TypeOK'
    BY <1>0, <1>4, ResourceAssumption DEF TypeOK, Called, boot
  <1>5. ASSUME NEW from \in DmaSources, NEW b \in DmaBlocks,
               StartDma(from, b[1], b[2])
        PROVE  TypeOK'
    <2>1. RomRecord(from, b[1], b[2]) \in Seq(Record)
      BY <1>0, FindRecorded DEF RomRecord, Kinds
    <2>2. CASE Copy(from, b[1], b[2]) /\ resources' = RomRecord(from, b[1], b[2])
      <3>1. /\ DOMAIN mem' = Cell /\ copies' \in Nat /\ bytes' \in Nat
            /\ stale' \subseteq Address
        BY <2>2, CopyType
      <3>. QED
        BY <1>4, <1>5, <2>1, <2>2, <3>1 DEF StartDma
    <2>3. CASE NoCopy
      BY <1>0, <1>4, <1>5, <2>3 DEF StartDma, NoCopy, TypeOK
    <2>. QED
      BY <1>5, <2>2, <2>3 DEF StartDma
  <1>6. ASSUME NEW k \in 0..CsegSize, RestoreCsegment(k) PROVE TypeOK'
    <2>1. Recorded(resources, "csegment_elf_restore", CsegStart, CsegSize,
                   ElfSource) \in Seq(Record)
      BY <1>0, FindRecorded DEF Kinds
    <2>2. DOMAIN mem' = Cell /\ stale' \subseteq Address
      BY <1>6 DEF RestoreCsegment, Written, Fresh, Unrecorded, Aliases, TypeOK
    <2>3. resources' \in Seq(Record)
      BY <1>0, <1>6, <2>1 DEF RestoreCsegment
    <2>. QED
      BY <1>4, <1>6, <2>2, <2>3 DEF RestoreCsegment, TypeOK
  <1>7. ASSUME NEW b \in PoolBlocks, Allocate(b[1], b[2]) PROVE TypeOK'
    <2>1. Recorded(resources, "memp_alloc", b[1], b[2], 0) \in Seq(Record)
      BY <1>0, FindRecorded DEF Kinds
    <2>2. DOMAIN mem' = Cell /\ stale' \subseteq Address
      BY <1>7 DEF Allocate, Written, Fresh, Aliases, TypeOK
    <2>. QED
      BY <1>4, <1>7, <2>1, <2>2 DEF Allocate, TypeOK
  <1>8. ASSUME NEW b \in Resizes, ResizeInPool(b[1], b[2]) PROVE TypeOK'
    <2>1. Recorded(resources, "memp_resize", b[1], b[2], 0) \in Seq(Record)
      BY <1>0, FindRecorded DEF Kinds
    <2>. QED
      BY <1>4, <1>8, <2>1 DEF ResizeInPool, TypeOK
  <1>9. ASSUME NEW b \in Resizes, ResizeByRecord(b[1], b[2]) PROVE TypeOK'
    <2>1. Find(resources, b[1]).source \in Nat
      BY <1>0, <1>9, FindType DEF ResizeByRecord, Record
    <2>2. Recorded(resources, "memp_resize", b[1], b[2],
                   Find(resources, b[1]).source) \in Seq(Record)
      BY <1>0, <2>1, FindRecorded DEF Kinds
    <2>. QED
      BY <1>4, <1>9, <2>2 DEF ResizeByRecord, TypeOK
  <1>10. ASSUME NEW source \in Sources, NEW target \in Targets,
                DecompressStub(source, target)
         PROVE  TypeOK'
    <2>1. Recorded(resources, "decompress_stub", target, 1, source)
            \in Seq(Record)
      BY <1>0, FindRecorded DEF Kinds
    <2>. QED
      BY <1>4, <1>10, <2>1 DEF DecompressStub, TypeOK
  <1>11. ASSUME NEW source \in Sources, NEW target \in Targets,
                NEW n \in 0..MaxInflated, NEW done \in BOOLEAN,
                DecompressBridge(source, target, n, done)
         PROVE  TypeOK'
    <2>. DEFINE wp == IF done THEN target + n ELSE 0
    <2>1. wp > target => wp - target = n
      BY <1>11, ResourceAssumption
    <2>2. n \in Nat /\ source \in Nat /\ target \in Nat
      BY ResourceAssumption
    <2>3. Recorded(resources, "decompress_stub", target, n, source)
            \in Seq(Record)
      BY <1>0, <2>2, FindRecorded DEF Kinds
    <2>4. resources' \in Seq(Record)
      BY <1>0, <1>11, <2>1, <2>3 DEF DecompressBridge
    <2>5. DOMAIN mem' = Cell /\ stale' \subseteq Address
      BY <1>11 DEF DecompressBridge, Written, Unrecorded, Aliases, TypeOK
    <2>. QED
      BY <1>4, <1>11, <2>4, <2>5 DEF DecompressBridge, TypeOK
  <1>12. ASSUME NEW v \in Stored, StoreWord(v) PROVE TypeOK'
    <2>1. DOMAIN mem' = Cell /\ stale' \subseteq Address
      BY <1>12 DEF StoreWord, Written, Unrecorded, TypeOK
    <2>. QED
      BY <1>0, <1>4, <1>12, <2>1 DEF StoreWord, TypeOK
  <1>13. CASE UNCHANGED vars
    BY <1>13 DEF vars, TypeOK
  <1>. QED
    BY <1>1, <1>2, <1>3, <1>5, <1>6, <1>7, <1>8, <1>9, <1>10, <1>11, <1>12,
       <1>13 DEF Next

(* And start with them. *)
LEMMA TypeAtStart == Init => TypeOK
  BY Constants, ResourceAssumption DEF Init, TypeOK

(* The tables, counters and tallies keep their types. *)
THEOREM TypeCorrect == Spec => []TypeOK
  BY TypeAtStart, TypeKept, PTL DEF Spec
-----------------------------------------------------------------------------
(* A step after which the table answers r for r's block, and for all other
   addresses what it did, notes r. *)
LEMMA NewAnswerIsNote ==
    ASSUME NEW kind \in Kinds, NEW v \in Nat \ {0}, NEW n \in Nat,
           NEW source \in Nat,
           \A w \in Address :
               Find(resources', w) = IF w \in Span(v, n)
                                     THEN Entry(kind, v, n, source)
                                     ELSE Find(resources, w)
    PROVE  [Map!Next]_Owner
  <1>. DEFINE r == Entry(kind, v, n, source)
  <1>0. Address \subseteq Nat
    BY ResourceAssumption DEF Address
  <1>1. \A w \in Address : Map!Covers(r, w) <=> w \in Span(v, n)
    BY <1>0 DEF Map!Covers, Entry, Span
  <1>2. r # NoRecord
    BY DEF Entry, NoRecord, Kinds
  <1>. HIDE DEF r
  <1>3. Owner' = [w \in Address |-> Find(resources', w)]
    BY DEF Owner
  <1>4. Owner' = [w \in Address |->
                    IF Map!Covers(r, w) THEN r ELSE Owner[w]]
    BY <1>1, <1>3 DEF Owner, r
  <1>5. CASE \E w \in Address : w \in Span(v, n)
    <2>1. PICK w \in Address : w \in Span(v, n)
      BY <1>5
    <2>2. Owner'[w] = r /\ Map!Covers(r, w)
      BY <1>1, <1>4, <2>1
    <2>. QED
      BY <1>2, <1>4, <2>1, <2>2 DEF Map!Next, Map!Note
  <1>6. CASE ~\E w \in Address : w \in Span(v, n)
    BY <1>3, <1>6 DEF Owner
  <1>. QED
    BY <1>5, <1>6

(* A step that records at most one block notes it or changes no owner. *)
LEMMA RecordIsNote ==
    ASSUME TypeOK, NEW kind \in Kinds, NEW v \in Nat, NEW n \in Nat,
           NEW source \in Nat,
           resources' \in {resources, Recorded(resources, kind, v, n, source)}
    PROVE  [Map!Next]_Owner
  <1>1. resources' = resources => Owner' = Owner
    BY DEF Owner
  <1>2. CASE v = 0
    BY <1>1, <1>2 DEF Recorded
  <1>3. CASE v # 0 /\ resources' # resources
    <2>1. resources \in Seq(Record)
      BY DEF TypeOK
    <2>2. resources' = Recorded(resources, kind, v, n, source)
      BY <1>3
    <2>3. \A w \in Address :
             Find(resources', w) = IF w \in Span(v, n)
                                   THEN Entry(kind, v, n, source)
                                   ELSE Find(resources, w)
      BY <1>3, <2>1, <2>2, FindAfter
    <2>. QED
      BY <1>3, <2>3, NewAnswerIsNote
  <1>. QED
    BY <1>1, <1>2, <1>3

(* Of the two records that the preload appends the second answers. *)
LEMMA PreloadAnswers ==
    ASSUME resources \in Seq(Record)
    PROVE  \A w \in Address :
              Find(Recorded(RomRecord(CdataRom, CsegStart, CdataSize),
                            "cdata_preload", CsegStart, CdataSize, CdataRom),
                   w) =
                 IF w \in Span(CsegStart, CdataSize)
                 THEN Entry("cdata_preload", CsegStart, CdataSize, CdataRom)
                 ELSE Find(resources, w)
  <1>. DEFINE once == RomRecord(CdataRom, CsegStart, CdataSize)
              twice == Recorded(once, "cdata_preload", CsegStart,
                                CdataSize, CdataRom)
  <1>1. once = Recorded(resources, "rom_dma", CsegStart, CdataSize, CdataRom)
    BY DEF RomRecord
  <1>2. /\ CdataRom \in Nat /\ CdataSize \in Nat
        /\ CsegStart \in Nat /\ CsegStart # 0
        /\ "rom_dma" \in Kinds /\ "cdata_preload" \in Kinds
    BY Constants DEF Kinds
  <1>. HIDE DEF once
  <1>3. once \in Seq(Record)
    BY <1>1, <1>2, FindRecorded
  <1>4. \A w \in Address :
          Find(once, w) =
             IF w \in Span(CsegStart, CdataSize)
             THEN Entry("rom_dma", CsegStart, CdataSize, CdataRom)
             ELSE Find(resources, w)
    BY <1>1, <1>2, FindAfter
  <1>5. \A w \in Address :
          Find(twice, w) =
             IF w \in Span(CsegStart, CdataSize)
             THEN Entry("cdata_preload", CsegStart, CdataSize, CdataRom)
             ELSE Find(once, w)
    BY <1>2, <1>3, FindAfter
  <1>. QED
    BY <1>4, <1>5 DEF once

(* Every step of the runtime notes one record at most: the two that the
   preload appends are of one block, so that the second answers for it. *)
LEMMA StepIsNote == TypeOK /\ [Next]_vars => [Map!Next]_Owner
  <1>. SUFFICES ASSUME TypeOK, [Next]_vars PROVE [Map!Next]_Owner
    OBVIOUS
  <1>. USE Constants
  <1>0. UNCHANGED resources => [Map!Next]_Owner
    BY DEF Owner
  <1>1. ASSUME NEW length \in RomSizes, LoadRom(length)
        PROVE  [Map!Next]_Owner
    BY <1>0, <1>1 DEF LoadRom
  <1>2. CASE LoadSection
    <2>. DEFINE sec == Sections[next]
    <2>1. next \in 1..Len(Sections)
      BY <1>2 DEF TypeOK, LoadSection
    <2>2. sec.rom \in Nat /\ sec.ram \in Nat /\ sec.size \in Nat
      BY <2>1
    <2>3. resources' \in {resources, RomRecord(sec.rom, sec.ram, sec.size)}
      BY <1>2 DEF LoadSection, NoCopy
    <2>. HIDE DEF sec
    <2>. QED
      BY <2>2, <2>3, RecordIsNote DEF RomRecord, Kinds
  <1>3. CASE PreloadCdata
    <2>. DEFINE twice == Recorded(RomRecord(CdataRom, CsegStart, CdataSize),
                                  "cdata_preload", CsegStart, CdataSize,
                                  CdataRom)
    <2>1. resources \in Seq(Record)
      BY DEF TypeOK
    <2>2. resources' = resources \/ resources' = twice
      BY <1>3 DEF PreloadCdata, NoCopy
    <2>3. CASE resources' = twice
      <3>1. \A w \in Address :
              Find(twice, w) =
                 IF w \in Span(CsegStart, CdataSize)
                 THEN Entry("cdata_preload", CsegStart, CdataSize, CdataRom)
                 ELSE Find(resources, w)
        BY <2>1, PreloadAnswers
      <3>. HIDE DEF twice
      <3>2. \A w \in Address :
              Find(resources', w) =
                 IF w \in Span(CsegStart, CdataSize)
                 THEN Entry("cdata_preload", CsegStart, CdataSize, CdataRom)
                 ELSE Find(resources, w)
        BY <2>3, <3>1
      <3>3. /\ "cdata_preload" \in Kinds /\ CsegStart \in Nat \ {0}
            /\ CdataSize \in Nat /\ CdataRom \in Nat
        BY ResourceAssumption DEF Kinds
      <3>. QED
        BY <3>2, <3>3, NewAnswerIsNote
    <2>. QED
      BY <1>0, <2>2, <2>3
  <1>4. ASSUME NEW from \in DmaSources, NEW b \in DmaBlocks,
               StartDma(from, b[1], b[2])
        PROVE  [Map!Next]_Owner
    <2>1. resources' \in {resources, RomRecord(from, b[1], b[2])}
      BY <1>4 DEF StartDma, NoCopy
    <2>. QED
      BY <2>1, RecordIsNote DEF RomRecord, Kinds
  <1>5. ASSUME NEW k \in 0..CsegSize, RestoreCsegment(k)
        PROVE  [Map!Next]_Owner
    BY <1>5, RecordIsNote DEF RestoreCsegment, Kinds
  <1>6. ASSUME NEW b \in PoolBlocks, Allocate(b[1], b[2])
        PROVE  [Map!Next]_Owner
    BY <1>6, RecordIsNote DEF Allocate, Kinds
  <1>7. ASSUME NEW b \in Resizes, ResizeInPool(b[1], b[2])
        PROVE  [Map!Next]_Owner
    BY <1>7, RecordIsNote DEF ResizeInPool, Kinds
  <1>8. ASSUME NEW b \in Resizes, ResizeByRecord(b[1], b[2])
        PROVE  [Map!Next]_Owner
    <2>1. Find(resources, b[1]).source \in Nat
      BY <1>8, FindType DEF ResizeByRecord, Record, TypeOK
    <2>. QED
      BY <1>8, <2>1, RecordIsNote DEF ResizeByRecord, Kinds
  <1>9. ASSUME NEW source \in Sources, NEW target \in Targets,
               DecompressStub(source, target)
        PROVE  [Map!Next]_Owner
    BY <1>9, RecordIsNote DEF DecompressStub, Kinds
  <1>10. ASSUME NEW source \in Sources, NEW target \in Targets,
                NEW n \in 0..MaxInflated, NEW done \in BOOLEAN,
                DecompressBridge(source, target, n, done)
         PROVE  [Map!Next]_Owner
    <2>. DEFINE wp == IF done THEN target + n ELSE 0
    <2>1. n \in Nat /\ source \in Nat /\ target \in Nat
      BY ResourceAssumption
    <2>2. wp > target => wp - target = n
      BY <2>1
    <2>3. resources' \in
            {resources,
             Recorded(resources, "decompress_stub", target, n, source)}
      BY <1>10, <2>2 DEF DecompressBridge
    <2>. QED
      BY <2>1, <2>3, RecordIsNote DEF Kinds
  <1>11. ASSUME NEW v \in Stored, StoreWord(v) PROVE [Map!Next]_Owner
    BY <1>0, <1>11 DEF StoreWord
  <1>12. CASE UNCHANGED vars
    BY <1>0, <1>12 DEF vars
  <1>. QED
    BY <1>1, <1>2, <1>3, <1>4, <1>5, <1>6, <1>7, <1>8, <1>9, <1>10, <1>11,
       <1>12 DEF Next

(* An empty table owns nothing. *)
LEMMA StartsEmpty == Init => Map!Init
  BY DEF Init, Map!Init, Owner, Find

(* The table, searched from its end, is the map of each address to the last
   thing noted about it, for any blocks and any number of records. *)
THEOREM TableIsMap == Spec => ImplementsMap
  <1>. QED
    BY StartsEmpty, StepIsNote, TypeCorrect, PTL
       DEF Spec, ImplementsMap, Map!Spec
-----------------------------------------------------------------------------
(* The record that answers for w is true of what w shows. *)
TrueAt(w) == Tells(Find(resources, w), w, mem[CellOf[w]])

(* An address of the set that is written shows what was put there. *)
LEMMA CellWritten ==
    ASSUME NEW B, NEW data, Once(B), Written(B, data),
           NEW v \in Address, v \in B, CellOf[v] # 0
    PROVE  mem'[CellOf[v]] = data[v]
  <1>. DEFINE c == CellOf[v]
              w == CHOOSE u \in B \cap Address : CellOf[u] = c
  <1>1. c \in Cell /\ c \in Shown(B)
    BY DEF Cell, Shown
  <1>2. w \in B \cap Address /\ CellOf[w] = c
    OBVIOUS
  <1>3. w = v
    BY <1>2 DEF Once
  <1>4. mem'[c] = data[w]
    BY <1>1 DEF Written
  <1>. QED
    BY <1>3, <1>4

(* An address that shows none of its cells shows what it did. *)
LEMMA CellKept ==
    ASSUME NEW B, NEW data, Written(B, data),
           NEW v \in Address, CellOf[v] # 0, CellOf[v] \notin Shown(B)
    PROVE  mem'[CellOf[v]] = mem[CellOf[v]]
  <1>1. CellOf[v] \in Cell
    BY DEF Cell
  <1>. QED
    BY <1>1 DEF Written

(* A set is written, of which a block is recorded with what it got, and every
   other address that shows it counts as changed behind the table. *)
LEMMA WriteRecorded ==
    ASSUME AnswersTrue, UNCHANGED bridge,
           NEW kind, NEW v, NEW n, NEW source, NEW B, NEW data,
           Once(B), Span(v, n) \subseteq B, Written(B, data),
           \A w \in Address \ stale' :
               \/ w \in Span(v, n)
               \/ w \notin stale /\ CellOf[w] \notin Shown(B),
           \A w \in Address :
               Find(resources', w) = IF w \in Span(v, n)
                                     THEN Entry(kind, v, n, source)
                                     ELSE Find(resources, w),
           \A w \in Address \ stale' :
               w \in Span(v, n) => Tells(Entry(kind, v, n, source), w, data[w])
    PROVE  AnswersTrue'
  <1>. SUFFICES ASSUME NEW w \in Address \ stale', CellOf[w] # 0
                PROVE  TrueAt(w)'
    BY DEF AnswersTrue, Translates, TrueAt
  <1>1. CASE w \in Span(v, n)
    <2>1. mem'[CellOf[w]] = data[w]
      BY <1>1, CellWritten
    <2>2. Find(resources', w) = Entry(kind, v, n, source)
      BY <1>1
    <2>3. Tells(Entry(kind, v, n, source), w, data[w])
      BY <1>1
    <2>. QED
      BY <2>1, <2>2, <2>3 DEF Tells, TrueAt
  <1>2. CASE w \notin Span(v, n)
    <2>1. w \notin stale /\ CellOf[w] \notin Shown(B)
      BY <1>2
    <2>2. mem'[CellOf[w]] = mem[CellOf[w]]
      BY <2>1, CellKept
    <2>3. Find(resources', w) = Find(resources, w)
      BY <1>2
    <2>4. Tells(Find(resources, w), w, mem[CellOf[w]])
      BY <2>1 DEF AnswersTrue, Translates
    <2>. QED
      BY <2>2, <2>3, <2>4 DEF Tells, TrueAt
  <1>. QED
    BY <1>1, <1>2

(* The block itself is what is written. *)
LEMMA BlockRecorded ==
    ASSUME AnswersTrue, UNCHANGED bridge,
           NEW kind, NEW v, NEW n, NEW source, NEW data,
           Once(Span(v, n)), Written(Span(v, n), data), Fresh(Span(v, n)),
           \A w \in Address :
               Find(resources', w) = IF w \in Span(v, n)
                                     THEN Entry(kind, v, n, source)
                                     ELSE Find(resources, w),
           \A w \in Address :
               w \in Span(v, n) => Tells(Entry(kind, v, n, source), w, data[w])
    PROVE  AnswersTrue'
  <1>1. \A w \in Address \ stale' :
            \/ w \in Span(v, n)
            \/ w \notin stale /\ CellOf[w] \notin Shown(Span(v, n))
    BY DEF Fresh, Aliases
  <1>. QED
    BY <1>1, WriteRecorded

(* What is written without a record counts as changed behind the table. *)
LEMMA WriteUnrecorded ==
    ASSUME AnswersTrue, UNCHANGED <<bridge, resources>>,
           NEW B, NEW data, Written(B, data), Unrecorded(B)
    PROVE  AnswersTrue'
  <1>. SUFFICES ASSUME NEW w \in Address \ stale', CellOf[w] # 0
                PROVE  TrueAt(w)'
    BY DEF AnswersTrue, Translates, TrueAt
  <1>1. w \notin stale /\ CellOf[w] \notin Shown(B)
    BY DEF Unrecorded
  <1>2. mem'[CellOf[w]] = mem[CellOf[w]]
    BY <1>1, CellKept
  <1>3. Tells(Find(resources, w), w, mem[CellOf[w]])
    BY <1>1 DEF AnswersTrue, Translates
  <1>. QED
    BY <1>2, <1>3 DEF Tells, TrueAt

(* A record of something that wrote nothing says nothing of the content. *)
LEMMA OnlyRecorded ==
    ASSUME AnswersTrue, UNCHANGED <<bridge, mem, stale>>,
           NEW kind, NEW v, NEW n, NEW source,
           \/ kind = "memp_resize"
           \/ kind = "decompress_stub" /\ ~bridge,
           \A w \in Address :
               Find(resources', w) = IF w \in Span(v, n)
                                     THEN Entry(kind, v, n, source)
                                     ELSE Find(resources, w)
    PROVE  AnswersTrue'
  <1>. SUFFICES ASSUME NEW w \in Address \ stale, CellOf[w] # 0
                PROVE  TrueAt(w)'
    BY DEF AnswersTrue, Translates, TrueAt
  <1>1. CASE w \in Span(v, n)
    BY <1>1 DEF Tells, TrueAt, Entry, NoRecord
  <1>2. CASE w \notin Span(v, n)
    <2>1. Tells(Find(resources, w), w, mem[CellOf[w]])
      BY DEF AnswersTrue, Translates, TrueAt
    <2>. QED
      BY <1>2, <2>1 DEF Tells, TrueAt
  <1>. QED
    BY <1>1, <1>2

(* No block reaches from one view of a cell to another. *)
LEMMA BlocksOnce ==
    /\ \A i \in 1..Len(Sections) : Once(Span(Sections[i].ram, Sections[i].size))
    /\ CdataSize <= CsegSize
    /\ \A k \in 0..CsegSize : Once(Span(CsegStart, k))
    /\ \A b \in DmaBlocks \cup PoolBlocks : Once(Span(b[1], b[2]))
    /\ \A target \in Targets, n \in 0..MaxInflated :
          Once(Span(target, n) \cup {RzWords})
  <1>1. ASSUME NEW k \in 0..CsegSize PROVE Once(Span(CsegStart, k))
    <2>1. Span(CsegStart, k) \subseteq Span(CsegStart, CsegSize)
      BY Constants DEF Span
    <2>. QED
      BY <2>1, BlockAssumption DEF Once
  <1>2. DOMAIN Sections = 1..Len(Sections)
    BY ResourceAssumption
  <1>. QED
    BY <1>1, <1>2, BlockAssumption, ResourceAssumption

(* A copy from the ROM is told truly by its record, or by another of the same
   block that says the same of it. *)
LEMMA CopyRecorded ==
    ASSUME AnswersTrue, UNCHANGED bridge,
           NEW kind \in {"rom_dma", "cdata_preload"}, NEW v \in Nat \ {0},
           NEW n \in Nat, NEW source \in Nat,
           Once(Span(v, n)), Copy(source, v, n),
           \A w \in Address :
               Find(resources', w) = IF w \in Span(v, n)
                                     THEN Entry(kind, v, n, source)
                                     ELSE Find(resources, w)
    PROVE  AnswersTrue'
  <1>. DEFINE data == FromRom(source, v, n)
  <1>1. \A w \in Address :
            w \in Span(v, n) => Tells(Entry(kind, v, n, source), w, data[w])
    BY DEF Tells, Entry, FromRom, NoRecord
  <1>2. Written(Span(v, n), data) /\ Fresh(Span(v, n))
    BY DEF Copy
  <1>. HIDE DEF data
  <1>. QED
    BY <1>1, <1>2, BlockRecorded

(* Every step leaves the table's answers true. *)
LEMMA AnswersStayTrue ==
    TypeOK /\ AnswersTrue /\ [Next]_vars => AnswersTrue'
  <1>. SUFFICES ASSUME TypeOK, AnswersTrue, [Next]_vars PROVE AnswersTrue'
    OBVIOUS
  <1>0. /\ UNCHANGED <<bridge, mem, resources, stale>> => AnswersTrue'
        /\ resources \in Seq(Record)
    <2>1. resources \in Seq(Record)
      BY DEF TypeOK
    <2>2. ASSUME UNCHANGED <<bridge, mem, resources, stale>>,
                 NEW w \in Address \ stale', CellOf[w] # 0
          PROVE  TrueAt(w)'
      <3>1. Tells(Find(resources, w), w, mem[CellOf[w]])
        BY <2>2 DEF AnswersTrue, Translates
      <3>. QED
        BY <2>2, <3>1 DEF TrueAt, Tells
    <2>. QED
      BY <2>1, <2>2 DEF AnswersTrue, Translates, TrueAt
  <1>1. ASSUME NEW length \in RomSizes, LoadRom(length) PROVE AnswersTrue'
    BY <1>0, <1>1 DEF LoadRom
  <1>2. ASSUME NEW from \in Nat, NEW v \in Nat \ {0}, NEW n \in Nat,
               Once(Span(v, n)), UNCHANGED bridge, Copy(from, v, n),
               resources' = RomRecord(from, v, n)
        PROVE  AnswersTrue'
    <2>1. \A w \in Address :
            Find(resources', w) = IF w \in Span(v, n)
                                  THEN Entry("rom_dma", v, n, from)
                                  ELSE Find(resources, w)
      BY <1>0, <1>2, FindAfter DEF RomRecord, Kinds
    <2>. QED
      BY <1>2, <2>1, CopyRecorded
  <1>3. CASE LoadSection
    <2>. DEFINE sec == Sections[next]
    <2>1. next \in 1..Len(Sections)
      BY <1>3 DEF TypeOK, LoadSection
    <2>2. /\ sec.rom \in Nat /\ sec.ram \in Nat \ {0} /\ sec.size \in Nat
          /\ Once(Span(sec.ram, sec.size))
      BY <2>1, Constants, BlocksOnce
    <2>3. /\ UNCHANGED bridge
          /\ \/ /\ Copy(sec.rom, sec.ram, sec.size)
                /\ resources' = RomRecord(sec.rom, sec.ram, sec.size)
             \/ NoCopy
      BY <1>3 DEF LoadSection
    <2>. HIDE DEF sec
    <2>. QED
      BY <1>0, <1>2, <2>2, <2>3 DEF NoCopy
  <1>4. CASE PreloadCdata
    <2>1. CASE NoCopy
      BY <1>0, <1>4, <2>1 DEF PreloadCdata, NoCopy
    <2>2. CASE /\ Copy(CdataRom, CsegStart, CdataSize)
               /\ resources' =
                     Recorded(RomRecord(CdataRom, CsegStart, CdataSize),
                              "cdata_preload", CsegStart, CdataSize, CdataRom)
      <3>1. \A w \in Address :
              Find(resources', w) =
                 IF w \in Span(CsegStart, CdataSize)
                 THEN Entry("cdata_preload", CsegStart, CdataSize, CdataRom)
                 ELSE Find(resources, w)
        BY <1>0, <2>2, PreloadAnswers
      <3>2. Once(Span(CsegStart, CdataSize))
        BY Constants, BlocksOnce
      <3>. QED
        BY <1>4, <2>2, <3>1, <3>2, Constants, CopyRecorded DEF PreloadCdata
    <2>. QED
      BY <1>4, <2>1, <2>2 DEF PreloadCdata
  <1>5. ASSUME NEW from \in DmaSources, NEW b \in DmaBlocks,
               StartDma(from, b[1], b[2])
        PROVE  AnswersTrue'
    <2>1. /\ from \in Nat /\ b[1] \in Nat \ {0} /\ b[2] \in Nat
          /\ Once(Span(b[1], b[2]))
      BY Constants, BlocksOnce
    <2>2. UNCHANGED bridge
      BY <1>5 DEF StartDma, Called
    <2>3. \/ /\ Copy(from, b[1], b[2])
             /\ resources' = RomRecord(from, b[1], b[2])
          \/ NoCopy
      BY <1>5 DEF StartDma
    <2>. QED
      BY <1>0, <1>2, <2>1, <2>2, <2>3 DEF NoCopy
  <1>6. ASSUME NEW k \in 0..CsegSize, RestoreCsegment(k) PROVE AnswersTrue'
    <2>. DEFINE data == [w \in Span(CsegStart, k) |-> <<"elf", w - CsegStart>>]
    <2>1. Written(Span(CsegStart, k), data) /\ UNCHANGED bridge
      BY <1>6 DEF RestoreCsegment, Called
    <2>2. CASE k = CsegSize /\ Fresh(Span(CsegStart, k))
               /\ resources' = Recorded(resources, "csegment_elf_restore",
                                        CsegStart, CsegSize, ElfSource)
      <3>1. \A w \in Address :
              Find(resources', w) =
                 IF w \in Span(CsegStart, k)
                 THEN Entry("csegment_elf_restore", CsegStart, k, ElfSource)
                 ELSE Find(resources, w)
        BY <1>0, <2>2, Constants, FindAfter DEF Kinds
      <3>2. \A w \in Address :
              w \in Span(CsegStart, k) =>
                 Tells(Entry("csegment_elf_restore", CsegStart, k, ElfSource),
                       w, data[w])
        BY DEF Tells, Entry, NoRecord
      <3>3. Once(Span(CsegStart, k))
        BY BlocksOnce
      <3>. HIDE DEF data
      <3>. QED
        BY <2>1, <2>2, <3>1, <3>2, <3>3, BlockRecorded
    <2>3. CASE Unrecorded(Span(CsegStart, k)) /\ UNCHANGED resources
      <3>. HIDE DEF data
      <3>. QED
        BY <2>1, <2>3, WriteUnrecorded
    <2>. QED
      BY <1>6, <2>2, <2>3 DEF RestoreCsegment
  <1>7. ASSUME NEW b \in PoolBlocks, Allocate(b[1], b[2]) PROVE AnswersTrue'
    <2>. DEFINE v == b[1]
                n == b[2]
                data == [w \in Span(v, n) |-> Zero]
    <2>1. v \in Nat \ {0} /\ n \in Nat /\ Once(Span(v, n))
      BY Constants, BlocksOnce
    <2>2. /\ Written(Span(v, n), data) /\ Fresh(Span(v, n))
          /\ UNCHANGED bridge
          /\ resources' = Recorded(resources, "memp_alloc", v, n, 0)
      BY <1>7 DEF Allocate, Called
    <2>3. \A w \in Address :
            w \in Span(v, n) => Tells(Entry("memp_alloc", v, n, 0), w, data[w])
      BY DEF Tells, Entry, NoRecord
    <2>. HIDE DEF data, v, n
    <2>4. \A w \in Address :
            Find(resources', w) = IF w \in Span(v, n)
                                  THEN Entry("memp_alloc", v, n, 0)
                                  ELSE Find(resources, w)
      BY <1>0, <2>1, <2>2, FindAfter DEF Kinds
    <2>. QED
      BY <2>1, <2>2, <2>3, <2>4, BlockRecorded
  <1>8. ASSUME NEW kind \in Kinds, NEW v \in Nat, NEW n \in Nat,
               NEW source \in Nat,
               kind = "memp_resize" \/ (kind = "decompress_stub" /\ ~bridge),
               resources' = Recorded(resources, kind, v, n, source),
               UNCHANGED <<bridge, mem, stale>>
        PROVE  AnswersTrue'
    <2>1. CASE v = 0
      BY <1>0, <1>8, <2>1 DEF Recorded
    <2>2. CASE v # 0
      <3>1. \A w \in Address :
              Find(resources', w) = IF w \in Span(v, n)
                                    THEN Entry(kind, v, n, source)
                                    ELSE Find(resources, w)
        BY <1>0, <1>8, <2>2, FindAfter
      <3>. QED
        BY <1>8, <3>1, OnlyRecorded
    <2>. QED
      BY <2>1, <2>2
  <1>9. ASSUME NEW b \in Resizes, ResizeInPool(b[1], b[2]) PROVE AnswersTrue'
    <2>1. b[1] \in Nat /\ b[2] \in Nat
      BY Constants
    <2>2. /\ resources' = Recorded(resources, "memp_resize", b[1], b[2], 0)
          /\ UNCHANGED <<bridge, mem, stale>>
      BY <1>9 DEF ResizeInPool, Called
    <2>. QED
      BY <1>8, <2>1, <2>2 DEF Kinds
  <1>10. ASSUME NEW b \in Resizes, ResizeByRecord(b[1], b[2])
         PROVE  AnswersTrue'
    <2>. DEFINE source == Find(resources, b[1]).source
    <2>1. b[1] \in Nat /\ b[2] \in Nat
      BY Constants
    <2>2. source \in Nat
      BY <1>0, <1>10, FindType DEF ResizeByRecord, Record
    <2>3. /\ resources' = Recorded(resources, "memp_resize", b[1], b[2], source)
          /\ UNCHANGED <<bridge, mem, stale>>
      BY <1>10 DEF ResizeByRecord, Called
    <2>. HIDE DEF source
    <2>. QED
      BY <1>8, <2>1, <2>2, <2>3 DEF Kinds
  <1>11. ASSUME NEW source \in Sources, NEW target \in Targets,
                DecompressStub(source, target)
         PROVE  AnswersTrue'
    <2>1. source \in Nat /\ target \in Nat
      BY Constants
    <2>2. /\ resources' =
               Recorded(resources, "decompress_stub", target, 1, source)
          /\ ~bridge /\ UNCHANGED <<bridge, mem, stale>>
      BY <1>11 DEF DecompressStub, Called
    <2>. QED
      BY <1>8, <2>1, <2>2 DEF Kinds
  <1>12. ASSUME NEW source \in Sources, NEW target \in Targets,
                NEW n \in 0..MaxInflated, NEW done \in BOOLEAN,
                DecompressBridge(source, target, n, done)
         PROVE  AnswersTrue'
    <2>. DEFINE out == Span(target, n)
                B == out \cup {RzWords}
                data == [w \in B |-> IF w = RzWords THEN Word
                                     ELSE <<"inflated", source>>]
                wp == IF done THEN target + n ELSE 0
    <2>1. n \in Nat /\ source \in Nat /\ target \in Nat /\ Once(B)
      BY Constants, ResourceAssumption, BlocksOnce
    <2>2. wp > target => wp - target = n
      BY <2>1
    <2>3. Written(B, data) /\ UNCHANGED bridge /\ RzWords \notin out
      BY <1>12 DEF DecompressBridge, Called
    <2>4. \/ /\ target # 0
             /\ resources' = Recorded(resources, "decompress_stub", target,
                                      n, source)
             /\ stale' = (stale \ out) \cup Aliases(out)
                           \cup {w \in Address : CellOf[w] \in Shown({RzWords})}
          \/ Unrecorded(B) /\ UNCHANGED resources
      BY <1>12, <2>2 DEF DecompressBridge
    <2>5. ASSUME NEW w \in out, w # RzWords
          PROVE  Tells(Entry("decompress_stub", target, n, source), w, data[w])
      BY <2>5 DEF Tells, Entry, NoRecord
    <2>6. Shown({RzWords}) = {CellOf[RzWords]}
      BY ResourceAssumption DEF Shown
    <2>7. Shown(B) = Shown(out) \cup Shown({RzWords})
      BY DEF Shown
    <2>. HIDE DEF data, wp
    <2>8. CASE Unrecorded(B) /\ UNCHANGED resources
      BY <2>3, <2>8, WriteUnrecorded
    <2>9. CASE /\ target # 0
               /\ resources' = Recorded(resources, "decompress_stub", target,
                                        n, source)
               /\ stale' = (stale \ out) \cup Aliases(out)
                         \cup {w \in Address : CellOf[w] \in Shown({RzWords})}
      <3>1. \A w \in Address :
              Find(resources', w) =
                 IF w \in out THEN Entry("decompress_stub", target, n, source)
                              ELSE Find(resources, w)
        BY <1>0, <2>1, <2>9, FindAfter DEF Kinds
      <3>2. \A w \in Address \ stale' :
               \/ w \in out
               \/ w \notin stale /\ CellOf[w] \notin Shown(B)
        BY <2>7, <2>9 DEF Aliases
      <3>3. \A w \in Address : w \in out =>
               Tells(Entry("decompress_stub", target, n, source), w, data[w])
        BY <2>3, <2>5
      <3>. QED
        BY <2>1, <2>3, <3>1, <3>2, <3>3, WriteRecorded
    <2>. QED
      BY <2>4, <2>8, <2>9
  <1>13. ASSUME NEW v \in Stored, StoreWord(v) PROVE AnswersTrue'
    <2>. DEFINE data == [w \in {v} |-> Word]
    <2>1. /\ Written({v}, data) /\ Unrecorded({v})
          /\ UNCHANGED <<bridge, resources>>
      BY <1>13 DEF StoreWord, Called
    <2>. HIDE DEF data
    <2>. QED
      BY <2>1, WriteUnrecorded
  <1>14. CASE UNCHANGED vars
    BY <1>0, <1>14 DEF vars
  <1>. QED
    BY <1>1, <1>3, <1>4, <1>5, <1>6, <1>7, <1>9, <1>10, <1>11, <1>12, <1>13,
       <1>14 DEF Next

(* Memory starts as zero and the table empty. *)
LEMMA StartsTrue == Init => AnswersTrue
  <1>. SUFFICES ASSUME Init, NEW v \in Address, CellOf[v] # 0
                PROVE  Tells(Find(resources, v), v, mem[CellOf[v]])
    BY DEF AnswersTrue, Translates
  <1>1. Find(resources, v) = NoRecord
    BY DEF Init, Find
  <1>2. mem[CellOf[v]] = Zero
    BY DEF Init, Cell
  <1>. QED
    BY <1>1, <1>2 DEF Tells, NoRecord

(* What a record of a write says is what is there, for every address whose
   cell was not changed behind the table. *)
THEOREM AnswersAreTrue == Spec => []AnswersTrue
  <1>. QED
    BY StartsTrue, AnswersStayTrue, TypeCorrect, PTL DEF Spec
-----------------------------------------------------------------------------
(* The records of one kind in a table s, and the bytes the copies among them
   stand for. *)
Of(s, kind) == {i \in DOMAIN s : s[i].kind = kind}

Sizes(s) == [i \in Of(s, "rom_dma") |-> s[i].size]

CopiedBytes(s) == SumFunction(Sizes(s))

Preloaded(s) == Of(s, "cdata_preload") # {}

LEMMA CopiedType ==
    ASSUME NEW s \in Seq(Record)
    PROVE  /\ DOMAIN s = 1..Len(s) /\ Len(s) \in Nat
           /\ IsFiniteSet(Of(s, "rom_dma"))
           /\ Sizes(s) \in [Of(s, "rom_dma") -> Nat]
           /\ CopiedBytes(s) \in Nat
  <1>1. DOMAIN s = 1..Len(s) /\ Len(s) \in Nat
    BY LenProperties
  <1>2. IsFiniteSet(Of(s, "rom_dma"))
    <2>1. Of(s, "rom_dma") \subseteq 1..Len(s)
      BY <1>1 DEF Of
    <2>2. IsFiniteSet(1..Len(s))
      BY <1>1, FS_Interval
    <2>. QED
      BY <2>1, <2>2, FS_Subset
  <1>3. Sizes(s) \in [Of(s, "rom_dma") -> Nat]
    <2>1. \A i \in 1..Len(s) : s[i] \in Record
      BY <1>1, ElementOfSeq
    <2>2. \A i \in 1..Len(s) : s[i].size \in Nat
      BY <2>1 DEF Record
    <2>. QED
      BY <1>1, <2>2 DEF Sizes, Of
  <1>. QED
    BY <1>1, <1>2, <1>3, FunctionSumNat DEF CopiedBytes

(* A record more. *)
LEMMA CopiedAppend ==
    ASSUME NEW s \in Seq(Record), NEW r \in Record
    PROVE  /\ CopiedBytes(Append(s, r)) =
                 CopiedBytes(s) + (IF r.kind = "rom_dma" THEN r.size ELSE 0)
           /\ \A kind : Of(Append(s, r), kind) = {} <=>
                            Of(s, kind) = {} /\ r.kind # kind
  <1>. DEFINE t == Append(s, r)
              x == Len(s) + 1
              S == Of(s, "rom_dma")
              T == Of(t, "rom_dma")
  <1>1. /\ t \in Seq(Record) /\ Len(s) \in Nat
        /\ DOMAIN t = 1..x /\ DOMAIN s = 1..Len(s)
        /\ t[x] = r /\ \A i \in 1..Len(s) : t[i] = s[i]
    BY AppendProperties, LenProperties
  <1>. HIDE DEF t
  <1>2. /\ IsFiniteSet(S) /\ Sizes(s) \in [S -> Nat] /\ CopiedBytes(s) \in Nat
        /\ IsFiniteSet(T) /\ Sizes(t) \in [T -> Nat]
    BY <1>1, CopiedType
  <1>3. \A kind : Of(t, kind) = IF r.kind = kind THEN Of(s, kind) \cup {x}
                                                ELSE Of(s, kind)
    BY <1>1 DEF Of
  <1>4. \A i \in S : Sizes(t)[i] = Sizes(s)[i]
    BY <1>1, <1>3 DEF Sizes, Of
  <1>5. CASE r.kind = "rom_dma"
    <2>1. x \in T /\ x \notin S /\ T = S \cup {x}
      BY <1>1, <1>3, <1>5 DEF Of
    <2>2. Sizes(t)[x] = r.size
      BY <1>1, <2>1 DEF Sizes
    <2>. HIDE DEF S, T, x
    <2>3. CopiedBytes(t) = CopiedBytes(s) + Sizes(t)[x]
      BY <1>2, <1>4, <2>1, FunctionSumMore, SMTT(20) DEF CopiedBytes
    <2>. QED
      BY <1>3, <1>5, <2>2, <2>3 DEF t
  <1>6. CASE r.kind # "rom_dma"
    <2>1. T = S
      BY <1>3, <1>6
    <2>2. Sizes(t) = Sizes(s)
      BY <1>2, <1>4, <2>1
    <2>. QED
      BY <1>2, <1>3, <1>6, <2>2 DEF CopiedBytes, t
  <1>. QED
    BY <1>5, <1>6, <1>3 DEF t

(* The record of a copy, and the record that names the preload. *)
LEMMA CopyTallied ==
    ASSUME NEW s \in Seq(Record), NEW v \in Nat \ {0}, NEW n \in Nat,
           NEW source \in Nat,
           NEW t, t = Recorded(s, "rom_dma", v, n, source)
    PROVE  /\ t \in Seq(Record)
           /\ CopiedBytes(t) = CopiedBytes(s) + n
           /\ Preloaded(t) => Preloaded(s)
  <1>1. CopiedBytes(s) \in Nat
    BY CopiedType
  <1>2. CASE n = 0
    BY <1>1, <1>2 DEF Recorded
  <1>3. CASE n # 0
    <2>. DEFINE r == Entry("rom_dma", v, n, source)
    <2>1. /\ r \in Record /\ r.kind = "rom_dma" /\ r.size = n
          /\ t = Append(s, r)
      BY <1>3 DEF Entry, Record, Recorded, Kinds
    <2>. HIDE DEF r
    <2>2. /\ CopiedBytes(t) =
                CopiedBytes(s) + (IF r.kind = "rom_dma" THEN r.size ELSE 0)
          /\ \A kind : Of(t, kind) = {} <=>
                           Of(s, kind) = {} /\ r.kind # kind
      BY <2>1, CopiedAppend
    <2>. QED
      BY <2>1, <2>2, AppendProperties DEF Preloaded
  <1>. QED
    BY <1>2, <1>3

LEMMA PreloadTallied ==
    ASSUME NEW s \in Seq(Record), NEW v \in Nat \ {0}, NEW n \in Nat \ {0},
           NEW source \in Nat,
           NEW t, t = Recorded(s, "cdata_preload", v, n, source)
    PROVE  /\ CopiedBytes(t) = CopiedBytes(s)
           /\ Preloaded(t)
  <1>1. "cdata_preload" \in Kinds
    BY DEF Kinds
  <1>. DEFINE r == Entry("cdata_preload", v, n, source)
  <1>2. /\ r \in Record /\ r.kind = "cdata_preload" /\ t = Append(s, r)
    BY <1>1 DEF Entry, Record, Recorded
  <1>3. CopiedBytes(s) \in Nat
    BY CopiedType
  <1>. HIDE DEF r
  <1>4. /\ CopiedBytes(t) =
              CopiedBytes(s) + (IF r.kind = "rom_dma" THEN r.size ELSE 0)
        /\ \A kind : Of(t, kind) = {} <=>
                         Of(s, kind) = {} /\ r.kind # kind
    BY <1>2, CopiedAppend
  <1>. QED
    BY <1>2, <1>3, <1>4 DEF Preloaded

(* What keeps the reports together: before the game runs nothing was called
   and the preload is not done, and the preload's record is there exactly
   when its tally is. *)
Reports ==
    /\ bytes = CopiedBytes(resources)
    /\ state.copied + state.skipped = next - 1
    /\ calls = 0 => /\ bytes = state.bytes + state.cdata
                    /\ copies = state.copied
                                  + (IF state.cdata = 0 THEN 0 ELSE 1)
    /\ phase # "run" => calls = 0 /\ state.cdata = 0
    /\ Preloaded(resources) <=> state.cdata # 0

(* A call leaves the tallies alone: what it records counts when it copied. *)
LEMMA CallReports ==
    ASSUME TypeOK, Reports, Called, NEW kind \in Kinds \ {"cdata_preload"},
           NEW v \in Nat, NEW n \in Nat, NEW source \in Nat,
           resources' = Recorded(resources, kind, v, n, source),
           bytes' = bytes + (IF kind = "rom_dma" /\ v # 0 THEN n ELSE 0)
    PROVE  Reports'
  <1>1. resources \in Seq(Record) /\ calls \in Nat
    BY ResourceAssumption DEF TypeOK
  <1>2. /\ CopiedBytes(resources') = CopiedBytes(resources) +
              (IF kind = "rom_dma" /\ v # 0 THEN n ELSE 0)
        /\ Preloaded(resources') <=> Preloaded(resources)
    <2>. DEFINE r == Entry(kind, v, n, source)
    <2>1. CopiedBytes(resources) \in Nat
      BY <1>1, CopiedType
    <2>2. CASE v = 0 \/ n = 0
      BY <2>1, <2>2 DEF Recorded
    <2>3. CASE v # 0 /\ n # 0
      <3>1. /\ r \in Record /\ r.kind = kind /\ r.size = n
            /\ resources' = Append(resources, r)
        BY <2>3 DEF Entry, Record, Recorded
      <3>. HIDE DEF r
      <3>2. /\ CopiedBytes(resources') = CopiedBytes(resources) +
                 (IF r.kind = "rom_dma" THEN r.size ELSE 0)
            /\ \A k : Of(resources', k) = {} <=>
                          Of(resources, k) = {} /\ r.kind # k
        BY <1>1, <3>1, CopiedAppend
      <3>3. kind # "cdata_preload"
        OBVIOUS
      <3>4. Preloaded(resources') <=> Preloaded(resources)
        BY <3>1, <3>2, <3>3 DEF Preloaded
      <3>. QED
        BY <2>3, <3>1, <3>2, <3>4
    <2>. QED
      BY <2>2, <2>3
  <1>3. /\ phase = "run" /\ phase' = "run" /\ calls' = calls + 1
        /\ UNCHANGED <<state, next>>
    BY DEF Called, boot
  <1>4. calls' # 0
    BY <1>1, <1>3
  <1>. QED
    BY <1>2, <1>3, <1>4 DEF Reports

LEMMA QuietReports ==
    ASSUME TypeOK, Reports, Called, UNCHANGED <<resources, bytes>>
    PROVE  Reports'
  <1>1. calls \in Nat
    BY ResourceAssumption DEF TypeOK
  <1>2. /\ phase = "run" /\ phase' = "run" /\ calls' = calls + 1
        /\ UNCHANGED <<state, next>>
    BY DEF Called, boot
  <1>3. calls' # 0
    BY <1>1, <1>2
  <1>. QED
    BY <1>2, <1>3 DEF Reports

LEMMA SectionReports == ASSUME TypeOK, Reports, LoadSection PROVE Reports'
  <1>. DEFINE sec == Sections[next]
              from == sec.rom
              v == sec.ram
              n == sec.size
  <1>1. /\ resources \in Seq(Record) /\ bytes \in Nat /\ copies \in Nat
        /\ state \in [copied : Nat, skipped : Nat, bytes : Nat, cdata : Nat]
        /\ next \in Nat
    BY Constants DEF TypeOK
  <1>2. from \in Nat /\ v \in Nat \ {0} /\ n \in Nat
    <2>1. next \in 1..Len(Sections)
      BY DEF TypeOK, LoadSection
    <2>. QED
      BY <2>1, Constants
  <1>3. /\ next' = next + 1 /\ UNCHANGED <<phase, calls>> /\ phase # "run"
        /\ \/ /\ bytes' = bytes + n /\ copies' = copies + 1
              /\ resources' = Recorded(resources, "rom_dma", v, n, from)
              /\ state' = [state EXCEPT !.copied = @ + 1, !.bytes = @ + n]
           \/ /\ UNCHANGED <<bytes, copies, resources>>
              /\ state' = [state EXCEPT !.skipped = @ + 1]
    BY DEF LoadSection, Copy, NoCopy, RomRecord
  <1>4. /\ state.copied \in Nat /\ state.skipped \in Nat
        /\ state.bytes \in Nat /\ state.cdata = 0 /\ calls = 0
        /\ state.copied + state.skipped = next - 1
        /\ bytes = state.bytes /\ copies = state.copied
        /\ bytes = CopiedBytes(resources)
        /\ ~Preloaded(resources)
    BY <1>1, <1>3 DEF Reports
  <1>. HIDE DEF from, v, n
  <1>5. CASE /\ bytes' = bytes + n /\ copies' = copies + 1
             /\ resources' = Recorded(resources, "rom_dma", v, n, from)
             /\ state' = [state EXCEPT !.copied = @ + 1, !.bytes = @ + n]
    <2>1. /\ state'.copied = state.copied + 1 /\ state'.bytes = state.bytes + n
          /\ state'.skipped = state.skipped /\ state'.cdata = 0
      BY <1>1, <1>4, <1>5
    <2>2. /\ CopiedBytes(resources') = CopiedBytes(resources) + n
          /\ ~Preloaded(resources')
      <3>1. PICK x \in Nat \ {0}, y \in Nat, z \in Nat :
                x = v /\ y = n /\ z = from
        BY <1>2
      <3>2. PICK t : t = resources'
        OBVIOUS
      <3>3. t = Recorded(resources, "rom_dma", x, y, z)
        BY <1>5, <3>1, <3>2
      <3>4. resources \in Seq(Record)
        BY <1>1
      <3>5. CopiedBytes(t) = CopiedBytes(resources) + y
        BY <3>3, <3>4, CopyTallied
      <3>6. Preloaded(t) => Preloaded(resources)
        BY <3>3, <3>4, CopyTallied
      <3>. QED
        BY <1>4, <3>1, <3>2, <3>5, <3>6
    <2>3. bytes' = CopiedBytes(resources')
      BY <1>4, <1>5, <2>2
    <2>4. state'.copied + state'.skipped = next' - 1
      BY <1>1, <1>3, <1>4, <2>1
    <2>5. bytes' = state'.bytes + state'.cdata
      BY <1>1, <1>2, <1>4, <1>5, <2>1
    <2>6. copies' = state'.copied + (IF state'.cdata = 0 THEN 0 ELSE 1)
      BY <1>1, <1>4, <1>5, <2>1
    <2>. QED
      BY <1>3, <1>4, <2>1, <2>2, <2>3, <2>4, <2>5, <2>6 DEF Reports
  <1>6. CASE /\ UNCHANGED <<bytes, copies, resources>>
             /\ state' = [state EXCEPT !.skipped = @ + 1]
    <2>1. /\ state'.copied = state.copied /\ state'.bytes = state.bytes
          /\ state'.skipped = state.skipped + 1 /\ state'.cdata = 0
      BY <1>1, <1>4, <1>6
    <2>2. bytes' = CopiedBytes(resources')
          /\ ~Preloaded(resources')
      BY <1>4, <1>6
    <2>3. state'.copied + state'.skipped = next' - 1
      BY <1>1, <1>3, <1>4, <2>1
    <2>4. bytes' = state'.bytes + state'.cdata
      BY <1>1, <1>4, <1>6, <2>1
    <2>5. copies' = state'.copied + (IF state'.cdata = 0 THEN 0 ELSE 1)
      BY <1>1, <1>4, <1>6, <2>1
    <2>. QED
      BY <1>3, <1>4, <2>1, <2>2, <2>3, <2>4, <2>5 DEF Reports
  <1>. QED
    BY <1>3, <1>5, <1>6

LEMMA PreloadReports == ASSUME TypeOK, Reports, PreloadCdata PROVE Reports'
  <1>1. /\ resources \in Seq(Record) /\ bytes \in Nat /\ copies \in Nat
        /\ state \in [copied : Nat, skipped : Nat, bytes : Nat, cdata : Nat]
        /\ CdataRom \in Nat /\ CdataSize \in Nat \ {0}
        /\ CsegStart \in Nat \ {0}
    BY Constants DEF TypeOK
  <1>2. /\ phase # "run" /\ phase' = "run" /\ UNCHANGED <<next, calls>>
        /\ \/ /\ bytes' = bytes + CdataSize /\ copies' = copies + 1
              /\ resources' =
                   Recorded(RomRecord(CdataRom, CsegStart, CdataSize),
                            "cdata_preload", CsegStart, CdataSize, CdataRom)
              /\ state' = [state EXCEPT !.cdata = CdataSize]
           \/ UNCHANGED <<bytes, copies, resources, state>>
    BY DEF PreloadCdata, Copy, NoCopy
  <1>3. state.cdata = 0 /\ calls = 0
    BY <1>2 DEF Reports
  <1>4. CASE UNCHANGED <<bytes, copies, resources, state>>
    BY <1>2, <1>4 DEF Reports
  <1>5. CASE /\ bytes' = bytes + CdataSize /\ copies' = copies + 1
             /\ resources' =
                   Recorded(RomRecord(CdataRom, CsegStart, CdataSize),
                            "cdata_preload", CsegStart, CdataSize, CdataRom)
             /\ state' = [state EXCEPT !.cdata = CdataSize]
    <2>. DEFINE s == RomRecord(CdataRom, CsegStart, CdataSize)
    <2>1. s \in Seq(Record) /\ CopiedBytes(s) = CopiedBytes(resources) + CdataSize
      <3>1. s = Recorded(resources, "rom_dma", CsegStart, CdataSize, CdataRom)
        BY DEF RomRecord
      <3>2. CdataSize \in Nat
        BY <1>1
      <3>. HIDE DEF s
      <3>. QED
        BY <1>1, <3>1, <3>2, CopyTallied
    <2>. HIDE DEF s
    <2>2. /\ CopiedBytes(resources') = CopiedBytes(s)
          /\ Preloaded(resources')
      <3>1. resources' = Recorded(s, "cdata_preload", CsegStart, CdataSize,
                                  CdataRom)
        BY <1>5 DEF s
      <3>. QED
        BY <1>1, <2>1, <3>1, PreloadTallied
    <2>3. /\ state'.copied = state.copied /\ state'.bytes = state.bytes
          /\ state'.skipped = state.skipped /\ state'.cdata = CdataSize
          /\ state.copied \in Nat /\ state.bytes \in Nat
      BY <1>1, <1>5
    <2>4. CopiedBytes(resources) \in Nat
      BY <1>1, CopiedType
    <2>5. CopiedBytes(resources') = CopiedBytes(resources) + CdataSize
      BY <1>1, <2>1, <2>2, <2>4
    <2>6. /\ bytes = state.bytes /\ copies = state.copied
          /\ bytes = CopiedBytes(resources)
          /\ state.copied + state.skipped = next - 1
      BY <1>1, <1>3 DEF Reports
    <2>. QED
      BY <1>1, <1>2, <1>3, <1>5, <2>2, <2>3, <2>5, <2>6 DEF Reports
  <1>. QED
    BY <1>2, <1>4, <1>5

LEMMA ReportsStep == ASSUME TypeOK, Reports, [Next]_vars PROVE Reports'
  <1>1. ASSUME NEW length \in RomSizes, LoadRom(length) PROVE Reports'
    BY <1>1 DEF LoadRom, Reports
  <1>2. ASSUME NEW from \in DmaSources, NEW b \in DmaBlocks,
               StartDma(from, b[1], b[2])
        PROVE  Reports'
    <2>1. b[1] \in Nat /\ b[1] # 0 /\ b[2] \in Nat /\ from \in Nat
      BY Constants
    <2>2. CASE /\ resources' = RomRecord(from, b[1], b[2])
               /\ bytes' = bytes + b[2]
      <3>1. /\ resources' = Recorded(resources, "rom_dma", b[1], b[2], from)
            /\ bytes' = bytes +
                  (IF "rom_dma" = "rom_dma" /\ b[1] # 0 THEN b[2] ELSE 0)
        BY <2>1, <2>2 DEF RomRecord
      <3>2. Called /\ "rom_dma" \in Kinds \ {"cdata_preload"}
        BY <1>2 DEF StartDma, Kinds
      <3>. QED
        BY <2>1, <3>1, <3>2, CallReports
    <2>3. CASE UNCHANGED <<resources, bytes>>
      BY <1>2, <2>3, QuietReports DEF StartDma
    <2>. QED
      BY <1>2, <2>2, <2>3 DEF StartDma, Copy, NoCopy
  <1>3. ASSUME NEW kind \in Kinds \ {"cdata_preload", "rom_dma"},
               NEW v \in Nat, NEW n \in Nat, NEW source \in Nat,
               resources' = Recorded(resources, kind, v, n, source),
               Called, UNCHANGED bytes
        PROVE  Reports'
    <2>1. bytes' = bytes + (IF kind = "rom_dma" /\ v # 0 THEN n ELSE 0)
      BY <1>3 DEF TypeOK
    <2>. QED
      BY <1>3, <2>1, CallReports
  <1>4. ASSUME NEW k \in 0..CsegSize, RestoreCsegment(k) PROVE Reports'
    <2>1. CASE UNCHANGED resources
      BY <1>4, <2>1, QuietReports DEF RestoreCsegment
    <2>2. CASE resources' = Recorded(resources, "csegment_elf_restore",
                                     CsegStart, CsegSize, ElfSource)
      BY <1>3, <1>4, <2>2, Constants DEF RestoreCsegment, Kinds
    <2>. QED
      BY <1>4, <2>1, <2>2 DEF RestoreCsegment
  <1>5. ASSUME NEW b \in PoolBlocks, Allocate(b[1], b[2]) PROVE Reports'
    BY <1>3, <1>5, Constants DEF Allocate, Kinds
  <1>6. ASSUME NEW b \in Resizes, ResizeInPool(b[1], b[2]) PROVE Reports'
    BY <1>3, <1>6, Constants DEF ResizeInPool, Kinds
  <1>7. ASSUME NEW b \in Resizes, ResizeByRecord(b[1], b[2]) PROVE Reports'
    <2>1. Find(resources, b[1]).source \in Nat
      BY <1>7, FindType DEF ResizeByRecord, Record, TypeOK
    <2>. QED
      BY <1>3, <1>7, <2>1, Constants DEF ResizeByRecord, Kinds
  <1>8. ASSUME NEW source \in Sources, NEW target \in Targets,
               DecompressStub(source, target)
        PROVE  Reports'
    BY <1>3, <1>8, Constants DEF DecompressStub, Kinds
  <1>9. ASSUME NEW source \in Sources, NEW target \in Targets,
               NEW n \in 0..MaxInflated, NEW done \in BOOLEAN,
               DecompressBridge(source, target, n, done)
        PROVE  Reports'
    <2>. DEFINE wp == IF done THEN target + n ELSE 0
    <2>1. n \in Nat /\ source \in Nat /\ target \in Nat
      BY Constants, ResourceAssumption
    <2>2. wp > target => wp - target = n
      BY <2>1
    <2>3. /\ Called /\ UNCHANGED bytes
          /\ \/ UNCHANGED resources
             \/ resources' =
                   Recorded(resources, "decompress_stub", target, n, source)
      BY <1>9, <2>2 DEF DecompressBridge
    <2>. HIDE DEF wp
    <2>. QED
      BY <1>3, <2>1, <2>3, QuietReports DEF Kinds
  <1>10. ASSUME NEW v \in Stored, StoreWord(v) PROVE Reports'
    BY <1>10, QuietReports DEF StoreWord
  <1>11. CASE UNCHANGED vars
    BY <1>11 DEF vars, Reports
  <1>. QED
    BY <1>1, <1>2, <1>4, <1>5, <1>6, <1>7, <1>8, <1>9, <1>10, <1>11,
       SectionReports, PreloadReports DEF Next

(* The tallies of the sections, the counters of copies and the records of
   copies, kept in three places, say the same. *)
THEOREM ReportsStayAgreed == Spec => []ReportsAgree
  <1>1. Init => Reports
    <2>. SUFFICES ASSUME Init PROVE Reports
      OBVIOUS
    <2>1. resources = <<>> /\ DOMAIN resources = {}
      BY DEF Init
    <2>2. Of(resources, "rom_dma") = {} /\ ~Preloaded(resources)
      BY <2>1 DEF Of, Preloaded
    <2>3. CopiedBytes(resources) = 0
      BY <2>2, SumOfNone DEF CopiedBytes, Sizes, SumFunction
    <2>. QED
      BY <2>2, <2>3 DEF Init, Reports
  <1>2. Reports => ReportsAgree
    <2>1. \A kind : OfKind(kind) = Of(resources, kind)
      BY DEF OfKind, Of
    <2>. QED
      BY <2>1 DEF Reports, ReportsAgree, CopiedBytes, Sizes, Preloaded
  <1>. QED
    BY <1>1, <1>2, ReportsStep, TypeCorrect, PTL DEF Spec
=============================================================================
