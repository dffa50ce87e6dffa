--------------------------- MODULE Messages_proofs ---------------------------
(***************************************************************************)
(* The message rings, the queues built of them and the scheduler loop that *)
(* runs over one of them.                                                  *)
(*                                                                         *)
(* For rings of any size a put appends to the contents, a take removes     *)
(* their head, and both keep the ring well formed.  For any number of      *)
(* queues and of calls every header stays well formed, the diagnostics add *)
(* up, and the rings implement the bounded FIFO of LossyFifo.  For any     *)
(* queue size, any number of done structures and any limit no done message *)
(* is counted twice or forgotten, and the process stops at the limit       *)
(* exactly.                                                                *)
(***************************************************************************)
EXTENDS MesgQueue, RspTask, SumTheorems, SequenceTheorems, FiniteSetTheorems,
        FunctionTheorems, TLAPS

-----------------------------------------------------------------------------
(* The rings. *)

(* A slot index that passed the end once: the remainder wraps it. *)
LEMMA ModWrap ==
    ASSUME NEW n \in Nat, n > 0, NEW a \in Nat, a < 2 * n
    PROVE  a % n = IF a < n THEN a ELSE a - n
  BY SMT

(* A function on 1..n is a sequence. *)
LEMMA FunctionIsSeq ==
    ASSUME NEW W, NEW n \in Nat, NEW f \in [1..n -> W]
    PROVE  f \in Seq(W) /\ Len(f) = n
  <1>1. f \in Seq(W)
    BY SeqDef
  <1>2. Len(f) \in Nat /\ DOMAIN f = 1..Len(f)
    BY <1>1, LenProperties
  <1>. QED
    BY <1>1, <1>2

(* A new ring is well formed and empty. *)
LEMMA NewRingOK ==
    ASSUME NEW W, NEW w \in W, NEW n \in Nat, NEW b \in BOOLEAN
    PROVE  RingOK(NewRing(n, b, w), W)
  BY DEF RingOK, NewRing

(* So is zeroed memory. *)
LEMMA NoRingOK ==
    ASSUME NEW W
    PROVE  RingOK(NoRing, W)
  <1>1. [i \in {} |-> 0] \in [0..(0 - 1) -> W]
    OBVIOUS
  <1>. QED
    BY <1>1 DEF RingOK, NoRing

(* A ring that takes a message keeps its shape. *)
LEMMA PutOK ==
    ASSUME NEW W, NEW r, RingOK(r, W), NEW m \in W
    PROVE  RingOK(Put(r, m), W)
  <1>1. CASE ~CanPut(r)
    BY <1>1 DEF Put
  <1>2. CASE CanPut(r)
    <2>1. PutSlot(r) \in 0..(r.count - 1)
      BY <1>2 DEF RingOK, CanPut, PutSlot
    <2>2. Put(r, m) = [valid |-> r.valid + 1, first |-> r.first,
                       count |-> r.count, buf |-> r.buf,
                       slot |-> [r.slot EXCEPT ![PutSlot(r)] = m]]
      BY <1>2 DEF RingOK, Put
    <2>3. [r.slot EXCEPT ![PutSlot(r)] = m] \in [0..(r.count - 1) -> W]
      BY <2>1 DEF RingOK
    <2>. QED
      BY <1>2, <2>2, <2>3 DEF RingOK, CanPut
  <1>. QED
    BY <1>1, <1>2

(* The two copies of the send agree: enqueue_runtime_message refuses what
   send_queue_message refuses, and leaves the same ring. *)
LEMMA WritersAgree ==
    ASSUME NEW W, NEW r, RingOK(r, W), NEW m
    PROVE  /\ EnqueueRefuses(r) <=> ~CanPut(r)
           /\ Enqueue(r, m) = Put(r, m)
  <1>1. EnqueueRefuses(r) <=> ~CanPut(r)
    BY DEF RingOK, EnqueueRefuses, CanPut
  <1>. QED
    BY <1>1 DEF Enqueue, Put, EnqueueSlot, PutSlot

(* What a take changes, field by field. *)
LEMMA TakeFields ==
    ASSUME NEW W, NEW r, RingOK(r, W), CanTake(r)
    PROVE  Take(r) = [valid |-> r.valid - 1, first |-> (r.first + 1) % r.count,
                      count |-> r.count, buf |-> r.buf, slot |-> r.slot]
  <1>. DEFINE x == (r.first + 1) % r.count
              y == r.valid - 1
  <1>1. x \in Nat /\ y \in Nat
    BY DEF RingOK, CanTake
  <1>2. Take(r) = [r EXCEPT !.first = x, !.valid = y]
    BY DEF Take
  <1>. HIDE DEF x, y
  <1>3. Take(r) = [valid |-> y, first |-> x,
                   count |-> r.count, buf |-> r.buf, slot |-> r.slot]
    BY <1>1, <1>2 DEF RingOK
  <1>. QED
    BY <1>3 DEF x, y

(* So does a ring that gives its oldest message away. *)
LEMMA TakeOK ==
    ASSUME NEW W, NEW r, RingOK(r, W), CanTake(r)
    PROVE  RingOK(Take(r), W)
  <1>1. (r.first + 1) % r.count \in 0..(r.count - 1)
    BY DEF RingOK, CanTake
  <1>. QED
    BY <1>1, TakeFields DEF RingOK, CanTake

(* The contents are a sequence of the words in the slots first, first + 1
   and so on around the ring. *)
LEMMA ContentsSeq ==
    ASSUME NEW W, NEW r, RingOK(r, W)
    PROVE  /\ Contents(r) \in Seq(W)
           /\ Len(Contents(r)) = r.valid
           /\ \A k \in 1..r.valid :
                 Contents(r)[k] = r.slot[(r.first + k - 1) % r.count]
  <1>1. ASSUME NEW k \in 1..r.valid
        PROVE  (r.first + k - 1) % r.count \in 0..(r.count - 1)
    BY DEF RingOK
  <1>2. Contents(r) \in [1..r.valid -> W]
    BY <1>1 DEF Contents, RingOK
  <1>3. r.valid \in Nat
    BY DEF RingOK
  <1>. QED
    BY <1>2, <1>3, FunctionIsSeq DEF Contents

(* A put that succeeds appends; no pending message is touched. *)
LEMMA PutAppends ==
    ASSUME NEW W, NEW r, RingOK(r, W), CanPut(r), NEW m \in W
    PROVE  Contents(Put(r, m)) = Append(Contents(r), m)
  <1>. DEFINE p == Put(r, m)
              s == Contents(r)
  <1>1. p = [valid |-> r.valid + 1, first |-> r.first,
             count |-> r.count, buf |-> r.buf,
             slot |-> [r.slot EXCEPT ![PutSlot(r)] = m]]
    BY DEF RingOK, Put
  <1>2. PutSlot(r) \in DOMAIN r.slot
    BY DEF RingOK, CanPut, PutSlot
  <1>3. ASSUME NEW k \in 1..r.valid
        PROVE  /\ (r.first + k - 1) % r.count # PutSlot(r)
               /\ (r.first + k - 1) % r.count \in DOMAIN r.slot
    <2>. DEFINE a == r.first + k - 1
                b == r.first + r.valid
    <2>1. /\ r.count \in Nat /\ r.count > 0
          /\ a \in Nat /\ b \in Nat
          /\ a < b /\ b < 2 * r.count /\ b - a < r.count
      BY DEF RingOK, CanPut
    <2>2. /\ a % r.count = IF a < r.count THEN a ELSE a - r.count
          /\ b % r.count = IF b < r.count THEN b ELSE b - r.count
      BY <2>1, ModWrap
    <2>3. a % r.count # b % r.count /\ a % r.count \in 0..(r.count - 1)
      BY <2>1, <2>2
    <2>. QED
      BY <2>3 DEF PutSlot, RingOK
  <1>4. RingOK(p, W)
    BY PutOK
  <1>5. /\ Contents(p) \in Seq(W)
        /\ Len(Contents(p)) = r.valid + 1
        /\ \A k \in 1..(r.valid + 1) :
              Contents(p)[k] = p.slot[(r.first + k - 1) % r.count]
    <2>1. p.valid = r.valid + 1 /\ p.first = r.first /\ p.count = r.count
      BY <1>1
    <2>. HIDE DEF p
    <2>. QED
      BY <2>1, <1>4, ContentsSeq
  <1>6. /\ s \in Seq(W) /\ Len(s) = r.valid /\ r.valid \in Nat
        /\ \A k \in 1..r.valid : s[k] = r.slot[(r.first + k - 1) % r.count]
    BY ContentsSeq DEF RingOK
  <1>7. ASSUME NEW k \in 1..r.valid
        PROVE  Contents(p)[k] = s[k]
    <2>. DEFINE i == (r.first + k - 1) % r.count
    <2>1. Contents(p)[k] = p.slot[i] /\ s[k] = r.slot[i]
      BY <1>5, <1>6
    <2>2. i # PutSlot(r) /\ i \in DOMAIN r.slot
      BY <1>3
    <2>3. p.slot[i] = r.slot[i]
      <3>. HIDE DEF i
      <3>. QED
        BY <1>1, <2>2
    <2>. QED
      BY <2>1, <2>3
  <1>8. Contents(p)[r.valid + 1] = m
    <2>1. (r.first + (r.valid + 1) - 1) % r.count = PutSlot(r)
      BY DEF RingOK, PutSlot
    <2>. QED
      BY <2>1, <1>1, <1>2, <1>5, <1>6
  <1>9. /\ Append(s, m) \in Seq(W)
        /\ Len(Append(s, m)) = r.valid + 1
        /\ \A k \in 1..r.valid : Append(s, m)[k] = s[k]
        /\ Append(s, m)[r.valid + 1] = m
    BY <1>6, AppendProperties
  <1>10. \A k \in 1..(r.valid + 1) : Contents(p)[k] = Append(s, m)[k]
    BY <1>6, <1>7, <1>8, <1>9
  <1>. QED
    BY <1>5, <1>9, <1>10, SeqEqual

(* A take removes the head, which is the message the reader returns. *)
LEMMA TakeRemovesHead ==
    ASSUME NEW W, NEW r, RingOK(r, W), CanTake(r)
    PROVE  /\ Contents(r) # << >>
           /\ Oldest(r) = Head(Contents(r))
           /\ Contents(Take(r)) = Tail(Contents(r))
  <1>. DEFINE t == Take(r)
              s == Contents(r)
              n == r.count
              f == r.first
  <1>1. /\ n \in Nat /\ n > 0 /\ f \in 0..(n - 1) /\ r.valid \in 1..n
        /\ (f + 1) % n \in 0..(n - 1)
    BY DEF RingOK, CanTake
  <1>2. t = [valid |-> r.valid - 1, first |-> (f + 1) % n,
             count |-> n, buf |-> r.buf, slot |-> r.slot]
    BY TakeFields
  <1>3. /\ s \in Seq(W) /\ Len(s) = r.valid
        /\ \A k \in 1..r.valid : s[k] = r.slot[(f + k - 1) % n]
    BY ContentsSeq
  <1>4. s # << >> /\ Head(s) = s[1]
    BY <1>1, <1>3
  <1>5. Oldest(r) = Head(s)
    <2>1. (f + 1 - 1) % n = f
      BY <1>1
    <2>2. s[1] = r.slot[(f + 1 - 1) % n]
      BY <1>1, <1>3
    <2>. QED
      BY <1>4, <2>1, <2>2 DEF Oldest
  <1>6. /\ Contents(t) \in Seq(W)
        /\ Len(Contents(t)) = r.valid - 1
        /\ \A k \in 1..(r.valid - 1) :
              Contents(t)[k] = r.slot[(((f + 1) % n) + k - 1) % n]
    <2>1. RingOK(t, W)
      BY TakeOK
    <2>. QED
      BY <2>1, <1>2, ContentsSeq
  <1>7. ASSUME NEW k \in 1..(r.valid - 1)
        PROVE  (((f + 1) % n) + k - 1) % n = (f + (k + 1) - 1) % n
    <2>. DEFINE a == f + k
                c == (f + 1) % n
    <2>1. a \in Nat /\ a < 2 * n /\ k \in Nat /\ 0 < k /\ k < n
      BY <1>1
    <2>2. c = IF f + 1 < n THEN f + 1 ELSE 0
      BY <1>1, ModWrap
    <2>3. CASE f + 1 < n
      <3>1. c + k - 1 = f + (k + 1) - 1
        BY <2>2, <2>3, <1>1, <2>1
      <3>. QED
        BY <3>1
    <2>4. CASE f = n - 1
      <3>1. c + k - 1 = k - 1 /\ k - 1 \in 0..(n - 1)
        BY <2>2, <2>4, <1>1, <2>1
      <3>2. (k - 1) % n = k - 1
        BY <3>1, <1>1, <2>1, ModWrap
      <3>3. a % n = k - 1
        <4>1. a >= n /\ a - n = k - 1
          BY <2>4, <1>1, <2>1
        <4>2. a % n = a - n
          BY <4>1, <1>1, <2>1, ModWrap
        <4>. QED
          BY <4>1, <4>2
      <3>4. f + (k + 1) - 1 = a
        BY <1>1, <2>1
      <3>. QED
        BY <3>1, <3>2, <3>3, <3>4
    <2>5. f + 1 < n \/ f = n - 1
      BY <1>1
    <2>. QED
      BY <2>3, <2>4, <2>5
  <1>8. /\ Tail(s) \in Seq(W) /\ Len(Tail(s)) = r.valid - 1
        /\ \A k \in 1..(r.valid - 1) : Tail(s)[k] = s[k + 1]
    BY <1>3, <1>4, HeadTailProperties
  <1>9. ASSUME NEW k \in 1..(r.valid - 1)
        PROVE  Contents(t)[k] = Tail(s)[k]
    <2>1. Contents(t)[k] = r.slot[(f + (k + 1) - 1) % n]
      BY <1>6, <1>7
    <2>2. k + 1 \in 1..r.valid
      BY <1>1
    <2>3. s[k + 1] = r.slot[(f + (k + 1) - 1) % n]
      BY <1>3, <2>2
    <2>. QED
      BY <1>8, <2>1, <2>3
  <1>10. Contents(t) = Tail(s)
    BY <1>1, <1>6, <1>8, <1>9, SeqEqual
  <1>. QED
    BY <1>4, <1>5, <1>10

(* The two tests the code makes say what the FIFO's room and emptiness say. *)
LEMMA RoomAndEmptiness ==
    ASSUME NEW W, NEW r, RingOK(r, W)
    PROVE  /\ CanPut(r) <=> Len(Contents(r)) < Capacity(r)
           /\ CanTake(r) <=> Contents(r) # << >>
  <1>1. Contents(r) \in Seq(W) /\ Len(Contents(r)) = r.valid
    BY ContentsSeq
  <1>2. CanPut(r) <=> r.valid < Capacity(r)
    BY DEF CanPut, Capacity, RingOK
  <1>3. CanTake(r) <=> r.valid # 0
    BY DEF CanTake, RingOK
  <1>. QED
    BY <1>1, <1>2, <1>3, EmptySeq

-----------------------------------------------------------------------------
(* The queues. *)

W == Msg \cup {Word}

(* The part of TypeOK the refinement needs. *)
RingsOK ==
    /\ ring = [q \in Queue |-> ring[q]]
    /\ \A q \in Queue : RingOK(ring[q], W)

(* Replacing one queue's ring by a well-formed one keeps them all so. *)
LEMMA UpdateOK ==
    ASSUME RingsOK, NEW q \in Queue, NEW r, RingOK(r, W),
           ring' = [ring EXCEPT ![q] = r]
    PROVE  RingsOK'
  BY DEF RingsOK, W

(* send_queue_message keeps the rings well formed. *)
LEMMA SendOK ==
    ASSUME RingsOK, NEW q \in Queue, NEW m \in Msg, SendQueueMessage(q, m)
    PROVE  RingsOK'
  <1>1. RingOK(Put(ring[q], m), W)
    BY PutOK DEF RingsOK, W
  <1>2. ring' = [ring EXCEPT ![q] = Put(ring[q], m)]
    BY DEF SendQueueMessage
  <1>. QED
    BY <1>1, <1>2, UpdateOK

(* So does its twin, which is the same step told with another answer. *)
LEMMA TwinIsSend ==
    ASSUME RingsOK, NEW q \in Queue, NEW m \in Msg,
           enqueue_runtime_message(q, m)
    PROVE  /\ Called /\ SendQueueMessage(q, m)
           /\ call' = Seen("enqueue_runtime_message", q, m, CanPut(ring[q]))
  <1>1. /\ EnqueueRefuses(ring[q]) <=> ~CanPut(ring[q])
        /\ Enqueue(ring[q], m) = Put(ring[q], m)
    BY WritersAgree DEF RingsOK
  <1>2. (~EnqueueRefuses(ring[q])) = CanPut(ring[q])
    BY <1>1 DEF EnqueueRefuses, CanPut
  <1>. QED
    BY <1>1, <1>2 DEF enqueue_runtime_message, SendQueueMessage

(* Every header, after any calls, is one all writers and the reader read
   correctly (TypeOK), and the counters are numbers. *)
THEOREM TypeCorrect == Spec => []TypeOK
  <1>. USE QueueAssumption
  <1>1. Init => TypeOK
    BY NoRingOK DEF Init, TypeOK
  <1>2. TypeOK /\ [Next]_vars => TypeOK'
    <2>. SUFFICES ASSUME TypeOK, [Next]_vars
                  PROVE  TypeOK'
      OBVIOUS
    <2>0. RingsOK /\ (RingsOK' => /\ ring' = [q \in Queue |-> ring'[q]]
                                  /\ \A q \in Queue :
                                        RingOK(ring'[q], Msg \cup {Word}))
      BY DEF RingsOK, TypeOK, W
    <2>1. ASSUME NEW q \in Queue, NEW hasBuf \in BOOLEAN, NEW n \in 0..MaxCount,
                 osCreateMesgQueue(q, hasBuf, n)
          PROVE  TypeOK'
      <3>1. RingOK(NewRing(n, hasBuf, Word), W)
        BY NewRingOK DEF W
      <3>2. RingsOK'
        BY <2>0, <2>1, <3>1, UpdateOK DEF osCreateMesgQueue
      <3>3. discarded' \in Nat /\ created' \in Nat
        BY <2>1 DEF TypeOK, RingOK, osCreateMesgQueue
      <3>4. calls' \in 0..MaxCalls /\ UNCHANGED <<sent, received, synthetic>>
        BY <2>1 DEF TypeOK, osCreateMesgQueue, Called
      <3>. QED
        BY <2>0, <3>2, <3>3, <3>4 DEF TypeOK
    <2>2. ASSUME NEW q \in Queue, NEW m \in Msg,
                 Called, SendQueueMessage(q, m)
          PROVE  TypeOK'
      <3>1. RingsOK'
        BY <2>0, <2>2, SendOK
      <3>. QED
        BY <2>0, <2>2, <3>1 DEF TypeOK, SendQueueMessage, Called
    <2>3. ASSUME UNCHANGED <<ring, created, sent, discarded>>,
                 received' \in Nat, synthetic' \in Nat, Called
          PROVE  TypeOK'
      BY <2>3 DEF TypeOK, Called
    <2>4. ASSUME NEW q \in Queue, NEW m \in Msg, osSendMesg(q, m)
          PROVE  TypeOK'
      <3>1. SendQueueMessage(q, m) \/ UNCHANGED <<ring, counters>>
        BY <2>4 DEF osSendMesg
      <3>2. Called
        BY <2>4 DEF osSendMesg
      <3>. QED
        BY <3>1, <3>2, <2>2, <2>3 DEF counters, TypeOK
    <2>5. ASSUME NEW q \in Queue, NEW m \in Msg, osSetEventMesg(q, m)
          PROVE  TypeOK'
      BY <2>5, <2>2 DEF osSetEventMesg
    <2>6. ASSUME NEW q \in Queue, osPiStartDma(q)
          PROVE  TypeOK'
      BY <2>6, <2>2 DEF osPiStartDma
    <2>7. ASSUME NEW q \in Queue, NEW m \in Msg, enqueue_runtime_message(q, m)
          PROVE  TypeOK'
      BY <2>0, <2>7, <2>2, TwinIsSend
    <2>8. ASSUME NEW q \in Queue, NEW block \in BOOLEAN, NEW out \in BOOLEAN,
                 ReceiveEmpty(q, block, out)
          PROVE  TypeOK'
      <3>1. /\ received' \in {received, received + 1}
            /\ synthetic' \in {synthetic, synthetic + 1}
            /\ Called /\ UNCHANGED <<ring, created, sent, discarded>>
        BY <2>8 DEF ReceiveEmpty
      <3>2. received' \in Nat /\ synthetic' \in Nat
        BY <3>1 DEF TypeOK
      <3>. QED
        BY <3>1, <3>2, <2>3
    <2>9. ASSUME NEW q \in Queue, ReceivePending(q)
          PROVE  TypeOK'
      <3>1. RingOK(Take(ring[q]), W)
        BY <2>0, <2>9, TakeOK DEF RingsOK, ReceivePending
      <3>2. RingsOK'
        BY <2>0, <2>9, <3>1, UpdateOK DEF ReceivePending
      <3>. QED
        BY <2>0, <2>9, <3>2 DEF TypeOK, ReceivePending, Called
    <2>10. ASSUME NEW op, NEW ok, Refuse(op, ok)
           PROVE  TypeOK'
      BY <2>10, <2>3 DEF Refuse, counters, TypeOK
    <2>11. CASE UNCHANGED vars
      BY <2>11 DEF vars, TypeOK
    <2>. QED
      BY <2>1, <2>4, <2>5, <2>6, <2>7, <2>8, <2>9, <2>10, <2>11 DEF Next
  <1>. QED
    BY <1>1, <1>2, PTL DEF Spec

-----------------------------------------------------------------------------
(* The FIFO's view of a step that replaces one queue's ring. *)
LEMMA ViewOfUpdate ==
    ASSUME RingsOK, NEW q \in Queue, NEW r,
           ring' = [ring EXCEPT ![q] = r]
    PROVE  /\ [p \in Queue |-> Contents(ring[p])]' =
                 [[p \in Queue |-> Contents(ring[p])] EXCEPT ![q] = Contents(r)]
           /\ [p \in Queue |-> Capacity(ring[p])]' =
                 [[p \in Queue |-> Capacity(ring[p])] EXCEPT ![q] = Capacity(r)]
  <1>1. ring' = [p \in Queue |-> IF p = q THEN r ELSE ring[p]]
    BY DEF RingsOK
  <1>. QED
    BY <1>1

(* A call that posts a message is a Post of the FIFO: appended when there
   is room, lost when there is none. *)
LEMMA PostStep ==
    ASSUME RingsOK, NEW q \in Queue, NEW m \in Msg,
           NEW op \in Fifo!Posting, NEW ok \in BOOLEAN,
           SendQueueMessage(q, m),
           call' = Seen(op, q, m, ok),
           op \in {"osSendMesg", "enqueue_runtime_message"}
             /\ Capacity(ring[q]) > 0  => (ok <=> CanPut(ring[q]))
    PROVE  Fifo!Post(op, q, m, ok)
  <1>. DEFINE r == ring[q]
              fifo == [p \in Queue |-> Contents(ring[p])]
              cap == [p \in Queue |-> Capacity(ring[p])]
  <1>1. RingOK(r, W)
    BY DEF RingsOK
  <1>2. Fifo!Room(q) <=> CanPut(r)
    BY <1>1, RoomAndEmptiness DEF Fifo!Room
  <1>3. Capacity(Put(r, m)) = Capacity(r)
    BY <1>1 DEF Put, Capacity, RingOK
  <1>4. Contents(Put(r, m)) =
          IF CanPut(r) THEN Append(Contents(r), m) ELSE Contents(r)
    BY <1>1, PutAppends DEF Put, W
  <1>5. /\ fifo' = [fifo EXCEPT ![q] = Contents(Put(r, m))]
        /\ cap' = [cap EXCEPT ![q] = Capacity(Put(r, m))]
    BY ViewOfUpdate DEF SendQueueMessage
  <1>6. cap' = cap
    BY <1>3, <1>5
  <1>7. fifo' = IF CanPut(r) THEN [fifo EXCEPT ![q] = Append(@, m)] ELSE fifo
    BY <1>4, <1>5
  <1>8. fifo' = IF Fifo!Room(q) THEN [fifo EXCEPT ![q] = Append(@, m)] ELSE fifo
    BY <1>2, <1>7
  <1>9. op \in {"osSendMesg", "enqueue_runtime_message"} /\ cap[q] > 0
          => (ok <=> Fifo!Room(q))
    BY <1>2
  <1>10. call' = Fifo!Seen(op, q, m, ok)
    BY DEF Seen, Fifo!Seen
  <1>. QED
    BY <1>6, <1>8, <1>9, <1>10 DEF Fifo!Post

(* The rings implement the bounded FIFO (ImplementsFifo). *)
THEOREM RingsImplementFifo == Spec => ImplementsFifo
  <1>. USE QueueAssumption
  <1>. DEFINE fifo == [p \in Queue |-> Contents(ring[p])]
              cap == [p \in Queue |-> Capacity(ring[p])]
  <1>1. Init => Fifo!Init
    <2>1. Contents(NoRing) = << >> /\ Capacity(NoRing) = 0
      BY DEF Contents, NoRing, Capacity
    <2>. QED
      BY <2>1 DEF Init, Fifo!Init, Seen, Fifo!Seen
  <1>2. TypeOK /\ [Next]_vars => [Fifo!Next]_(Fifo!vars)
    <2>. SUFFICES ASSUME TypeOK, [Next]_vars
                  PROVE  [Fifo!Next]_(Fifo!vars)
      OBVIOUS
    <2>0. RingsOK /\ \A q \in Queue : RingOK(ring[q], W)
      BY DEF RingsOK, TypeOK, W
    <2>1. ASSUME NEW q \in Queue, NEW hasBuf \in BOOLEAN, NEW n \in 0..MaxCount,
                 osCreateMesgQueue(q, hasBuf, n)
          PROVE  Fifo!Open(q)
      <3>. DEFINE r == NewRing(n, hasBuf, Word)
      <3>1. Contents(r) = << >> /\ Capacity(r) \in Nat
        BY DEF NewRing, Contents, Capacity
      <3>2. /\ fifo' = [fifo EXCEPT ![q] = Contents(r)]
            /\ cap' = [cap EXCEPT ![q] = Capacity(r)]
        BY <2>0, <2>1, ViewOfUpdate DEF osCreateMesgQueue
      <3>3. cap \in [Queue -> Nat]
        BY <2>0 DEF Capacity, RingOK
      <3>. QED
        BY <2>1, <3>1, <3>2, <3>3
           DEF Fifo!Open, osCreateMesgQueue, Seen, Fifo!Seen
    <2>2. ASSUME NEW q \in Queue, NEW m \in Msg, osSendMesg(q, m)
          PROVE  \E ok \in BOOLEAN : Fifo!Post("osSendMesg", q, m, ok)
      <3>1. CASE /\ ring[q].count <= 0 \/ ring[q].valid >= ring[q].count
                 /\ call' = Seen("osSendMesg", q, m, FALSE)
                 /\ UNCHANGED <<ring, counters>>
        <4>1. ~CanPut(ring[q])
          BY <2>0, <3>1 DEF RingOK, CanPut
        <4>2. ring' = [ring EXCEPT ![q] = ring[q]]
          BY <2>0, <3>1 DEF RingsOK
        <4>3. SendQueueMessage(q, m)
          BY <3>1, <4>1, <4>2 DEF SendQueueMessage, Put, counters
        <4>4. Fifo!Post("osSendMesg", q, m, FALSE)
          BY <2>0, <3>1, <4>1, <4>3, PostStep DEF Fifo!Posting
        <4>. QED
          BY <4>4
      <3>2. CASE /\ ring[q].count > 0 /\ ring[q].valid < ring[q].count
                 /\ call' = Seen("osSendMesg", q, m, TRUE)
                 /\ SendQueueMessage(q, m)
        <4>1. Capacity(ring[q]) > 0 => CanPut(ring[q])
          BY <2>0, <3>2 DEF RingOK, CanPut, Capacity
        <4>2. Fifo!Post("osSendMesg", q, m, TRUE)
          BY <2>0, <3>2, <4>1, PostStep DEF Fifo!Posting
        <4>. QED
          BY <4>2
      <3>. QED
        BY <2>2, <3>1, <3>2 DEF osSendMesg
    <2>3. ASSUME NEW q \in Queue, NEW m \in Msg, osSetEventMesg(q, m)
          PROVE  Fifo!Post("osSetEventMesg", q, m, TRUE)
      BY <2>0, <2>3, PostStep DEF osSetEventMesg, Fifo!Posting
    <2>4. ASSUME NEW q \in Queue, osPiStartDma(q)
          PROVE  Fifo!Post("osPiStartDma", q, DmaDone, TRUE)
      BY <2>0, <2>4, PostStep DEF osPiStartDma, Fifo!Posting
    <2>5. ASSUME NEW q \in Queue, NEW m \in Msg, enqueue_runtime_message(q, m)
          PROVE  Fifo!Post("enqueue_runtime_message", q, m, CanPut(ring[q]))
      <3>1. CanPut(ring[q]) \in BOOLEAN
        BY DEF CanPut
      <3>. QED
        BY <2>0, <2>5, <3>1, TwinIsSend, PostStep DEF Fifo!Posting
    <2>6. ASSUME NEW q \in Queue, NEW block \in BOOLEAN, NEW out \in BOOLEAN,
                 ReceiveEmpty(q, block, out)
          PROVE  Fifo!ReceiveNothing(q)
      <3>1. Contents(ring[q]) = << >>
        BY <2>0, <2>6, RoomAndEmptiness DEF ReceiveEmpty
      <3>. QED
        BY <2>6, <3>1 DEF ReceiveEmpty, Fifo!ReceiveNothing, Seen, Fifo!Seen
    <2>7. ASSUME NEW q \in Queue, ReceivePending(q)
          PROVE  Fifo!Deliver(q)
      <3>. DEFINE r == ring[q]
      <3>1. /\ Contents(r) # << >>
            /\ Oldest(r) = Head(Contents(r))
            /\ Contents(Take(r)) = Tail(Contents(r))
        BY <2>0, <2>7, TakeRemovesHead DEF ReceivePending
      <3>2. Capacity(Take(r)) = Capacity(r)
        BY <2>0, <2>7, TakeFields DEF ReceivePending, Capacity
      <3>3. /\ fifo' = [fifo EXCEPT ![q] = Contents(Take(r))]
            /\ cap' = [cap EXCEPT ![q] = Capacity(Take(r))]
        BY <2>0, <2>7, ViewOfUpdate DEF ReceivePending
      <3>4. cap' = cap /\ fifo' = [fifo EXCEPT ![q] = Tail(@)]
        BY <3>1, <3>2, <3>3
      <3>. QED
        BY <2>7, <3>1, <3>4 DEF ReceivePending, Fifo!Deliver, Seen, Fifo!Seen
    <2>8. ASSUME NEW op \in Admitting \cup Silent, NEW ok \in BOOLEAN,
                 Refuse(op, ok)
          PROVE  Fifo!Refuse
      <3>1. op \in Fifo!Posting \cup {"osCreateMesgQueue", "osRecvMesg"}
        BY DEF Admitting, Silent, Fifo!Posting
      <3>2. UNCHANGED ring /\ call' = Fifo!Seen(op, NoQueue, NoMsg, ok)
        BY <2>8 DEF Refuse, Seen, Fifo!Seen
      <3>. QED
        BY <3>1, <3>2 DEF Fifo!Refuse
    <2>9. CASE UNCHANGED vars
      BY <2>9 DEF vars, Fifo!vars
    <2>10. DmaDone \in Msg /\ {"osSendMesg", "osSetEventMesg", "osPiStartDma",
                              "enqueue_runtime_message"} \subseteq Fifo!Posting
      BY DEF Fifo!Posting
    <2>11. \A q \in Queue : CanPut(ring[q]) \in BOOLEAN
      BY DEF CanPut
    <2>12. ASSUME NEW q \in Queue, Fifo!Open(q) \/ Fifo!Deliver(q)
                                     \/ Fifo!ReceiveNothing(q)
           PROVE  Fifo!Next
      BY <2>12 DEF Fifo!Next
    <2>13. ASSUME NEW op \in Fifo!Posting, NEW q \in Queue, NEW m \in Msg,
                  NEW ok \in BOOLEAN, Fifo!Post(op, q, m, ok)
           PROVE  Fifo!Next
      BY <2>13 DEF Fifo!Next
    <2>14. ASSUME Fifo!Refuse PROVE Fifo!Next
      BY <2>14 DEF Fifo!Next
    <2>15. CASE \E q \in Queue, hasBuf \in BOOLEAN, n \in 0..MaxCount :
                   osCreateMesgQueue(q, hasBuf, n)
      BY <2>15, <2>1, <2>12
    <2>16. CASE \E q \in Queue, m \in Msg : osSendMesg(q, m)
      BY <2>16, <2>2, <2>10, <2>13
    <2>17. CASE \E q \in Queue, m \in Msg : osSetEventMesg(q, m)
      BY <2>17, <2>3, <2>10, <2>13
    <2>18. CASE \E q \in Queue : osPiStartDma(q)
      BY <2>18, <2>4, <2>10, <2>13
    <2>19. CASE \E q \in Queue, m \in Msg : enqueue_runtime_message(q, m)
      BY <2>19, <2>5, <2>10, <2>11, <2>13
    <2>20. CASE \E q \in Queue, block, out \in BOOLEAN : ReceiveEmpty(q, block, out)
      BY <2>20, <2>6, <2>12
    <2>21. CASE \E q \in Queue : ReceivePending(q)
      BY <2>21, <2>7, <2>12
    <2>22. CASE \/ \E op \in Admitting : Refuse(op, FALSE)
                \/ \E op \in Silent : Refuse(op, TRUE)
      BY <2>22, <2>8, <2>14
    <2>. QED
      BY <2>9, <2>15, <2>16, <2>17, <2>18, <2>19, <2>20, <2>21, <2>22 DEF Next
  <1>. QED
    BY <1>1, <1>2, TypeCorrect, PTL DEF Spec, ImplementsFifo, Fifo!Spec

-----------------------------------------------------------------------------
(* The sum of what is pending in the queues. *)
Valids(r) == [q \in Queue |-> r[q].valid]

Pending(r) == SumFunction(Valids(r))

LEMMA PendingIsNat ==
    ASSUME RingsOK
    PROVE  Pending(ring) \in Nat
  <1>1. Valids(ring) \in [Queue -> Nat]
    BY DEF RingsOK, RingOK, Valids
  <1>. QED
    BY <1>1, QueueAssumption, FunctionSumNat DEF Pending

(* One queue's ring is replaced: what is pending moves with its header. *)
LEMMA PendingMoves ==
    ASSUME RingsOK, NEW q \in Queue, NEW r, RingOK(r, W),
           ring' = [ring EXCEPT ![q] = r]
    PROVE  Pending(ring') = Pending(ring) + r.valid - ring[q].valid
  <1>. DEFINE t == [ring EXCEPT ![q] = r]
  <1>1. /\ t[q] = r /\ \A p \in Queue \ {q} : t[p] = ring[p]
        /\ \A p \in Queue : ring[p].valid \in Nat
        /\ r.valid \in Nat
    BY DEF RingsOK, RingOK
  <1>. HIDE DEF t
  <1>2. Valids(ring) \in [Queue -> Nat] /\ Valids(t) \in [Queue -> Nat]
    BY <1>1 DEF Valids
  <1>3. \A p \in Queue \ {q} : Valids(t)[p] = Valids(ring)[p]
    BY <1>1 DEF Valids
  <1>4. Valids(t)[q] = r.valid /\ Valids(ring)[q] = ring[q].valid
    BY <1>1 DEF Valids
  <1>5. IsFiniteSet(Queue)
    BY QueueAssumption
  <1>6. Pending(t) = Pending(ring) + Valids(t)[q] - Valids(ring)[q]
    BY <1>2, <1>3, <1>5, FunctionSumChange, SMTT(20) DEF Pending
  <1>. QED
    BY <1>4, <1>6 DEF t

LEMMA SendCounts ==
    ASSUME TypeOK, CountersAddUp,
           NEW q \in Queue, NEW m \in Msg, SendQueueMessage(q, m)
    PROVE  CountersAddUp'
  <1>. DEFINE r == ring[q]
  <1>1. RingsOK /\ RingOK(r, W) /\ RingOK(Put(r, m), W)
    BY PutOK DEF TypeOK, RingsOK, W
  <1>2. Pending(ring') = Pending(ring) + Put(r, m).valid - r.valid
    BY <1>1, PendingMoves DEF SendQueueMessage
  <1>3. /\ Put(r, m).valid = IF CanPut(r) THEN r.valid + 1 ELSE r.valid
        /\ r.valid \in Nat
    BY <1>1 DEF Put, RingOK
  <1>4. /\ sent' = IF CanPut(r) THEN sent + 1 ELSE sent
        /\ UNCHANGED <<received, discarded, synthetic>>
    BY DEF SendQueueMessage
  <1>5. /\ sent = (received - synthetic) + discarded + Pending(ring)
        /\ sent \in Nat /\ received \in Nat /\ synthetic \in Nat
        /\ discarded \in Nat /\ Pending(ring) \in Nat
    BY <1>1, PendingIsNat DEF CountersAddUp, Pending, Valids, TypeOK
  <1>. HIDE DEF r
  <1>6. sent' = (received' - synthetic') + discarded' + Pending(ring')
    BY <1>2, <1>3, <1>4, <1>5
  <1>. QED
    BY <1>6 DEF CountersAddUp, Pending, Valids

(* The calls that leave the rings alone. *)
LEMMA QuietCounts ==
    ASSUME TypeOK, CountersAddUp, UNCHANGED <<ring, sent, discarded>>,
           \/ UNCHANGED <<received, synthetic>>
           \/ received' = received + 1 /\ synthetic' = synthetic + 1
    PROVE  CountersAddUp'
  <1>1. received \in Nat /\ synthetic \in Nat
    BY DEF TypeOK
  <1>2. received' - synthetic' = received - synthetic
    BY <1>1
  <1>. QED
    BY <1>2 DEF CountersAddUp

LEMMA CountersStep ==
    ASSUME TypeOK, CountersAddUp, [Next]_vars
    PROVE  CountersAddUp'
  <1>0. /\ RingsOK /\ Pending(ring) \in Nat
        /\ sent \in Nat /\ received \in Nat /\ synthetic \in Nat
        /\ discarded \in Nat
        /\ sent = (received - synthetic) + discarded + Pending(ring)
    BY PendingIsNat DEF TypeOK, RingsOK, W, CountersAddUp, Pending, Valids
  <1>1. ASSUME NEW q \in Queue, NEW hasBuf \in BOOLEAN, NEW n \in 0..MaxCount,
               osCreateMesgQueue(q, hasBuf, n)
        PROVE  CountersAddUp'
    <2>. DEFINE r == NewRing(n, hasBuf, Word)
    <2>1. RingOK(r, W) /\ r.valid = 0
      <3>1. RingOK(r, W)
        BY QueueAssumption, NewRingOK DEF W
      <3>2. r.valid = 0
        BY DEF NewRing
      <3>. QED
        BY <3>1, <3>2
    <2>2. ring' = [ring EXCEPT ![q] = r] /\ discarded' = discarded + ring[q].valid
          /\ UNCHANGED <<sent, received, synthetic>>
      BY <1>1 DEF osCreateMesgQueue
    <2>3. ring[q].valid \in Nat
      BY <1>0 DEF RingsOK, RingOK
    <2>. HIDE DEF r
    <2>4. Pending(ring') = Pending(ring) + r.valid - ring[q].valid
      BY <1>0, <2>1, <2>2, PendingMoves
    <2>5. sent' = (received' - synthetic') + discarded' + Pending(ring')
      BY <1>0, <2>1, <2>2, <2>3, <2>4
    <2>. QED
      BY <2>5 DEF CountersAddUp, Pending, Valids
  <1>2. ASSUME NEW q \in Queue, ReceivePending(q)
        PROVE  CountersAddUp'
    <2>. DEFINE r == ring[q]
    <2>1. /\ CanTake(r) /\ ring' = [ring EXCEPT ![q] = Take(r)]
          /\ received' = received + 1
          /\ UNCHANGED <<sent, discarded, synthetic>>
      BY <1>2 DEF ReceivePending
    <2>2. RingOK(r, W) /\ r.valid \in Nat
      BY <1>0 DEF RingsOK, RingOK
    <2>3. RingOK(Take(r), W) /\ Take(r).valid = r.valid - 1
      BY <2>1, <2>2, TakeOK, TakeFields
    <2>4. Pending(ring') = Pending(ring) + Take(r).valid - r.valid
      BY <1>0, <2>1, <2>3, PendingMoves
    <2>. HIDE DEF r
    <2>5. sent' = (received' - synthetic') + discarded' + Pending(ring')
      BY <1>0, <2>1, <2>2, <2>3, <2>4
    <2>. QED
      BY <2>5 DEF CountersAddUp, Pending, Valids
  <1>3. ASSUME NEW q \in Queue, NEW m \in Msg,
               \/ osSendMesg(q, m) \/ osSetEventMesg(q, m)
               \/ osPiStartDma(q) \/ enqueue_runtime_message(q, m)
        PROVE  CountersAddUp'
    <2>1. \/ SendQueueMessage(q, m) \/ SendQueueMessage(q, DmaDone)
          \/ UNCHANGED <<ring, counters>>
      BY <1>0, <1>3, TwinIsSend DEF osSendMesg, osSetEventMesg, osPiStartDma
    <2>. QED
      BY <2>1, SendCounts, QuietCounts, QueueAssumption DEF counters
  <1>4. ASSUME NEW q \in Queue, NEW block \in BOOLEAN, NEW out \in BOOLEAN,
               ReceiveEmpty(q, block, out)
        PROVE  CountersAddUp'
    BY <1>4, QuietCounts DEF ReceiveEmpty
  <1>5. ASSUME NEW op, NEW ok, Refuse(op, ok) PROVE CountersAddUp'
    BY <1>5, QuietCounts DEF Refuse, counters
  <1>6. CASE UNCHANGED vars
    BY <1>6, QuietCounts DEF vars
  <1>7. DmaDone \in Msg
    BY QueueAssumption
  <1>. QED
    BY <1>1, <1>2, <1>3, <1>4, <1>5, <1>6, <1>7 DEF Next

(* Every message counted as sent was received, is pending, or was forgotten
   when its queue was created again; the rest of what was received was made
   up (CountersAddUp). *)
THEOREM DiagnosticsAddUp == Spec => []CountersAddUp
  <1>1. Init => CountersAddUp
    <2>. SUFFICES ASSUME Init PROVE CountersAddUp
      OBVIOUS
    <2>1. /\ \A q \in Queue : ring[q].valid = 0
          /\ sent = 0 /\ received = 0 /\ synthetic = 0 /\ discarded = 0
      BY DEF Init, NoRing
    <2>2. Pending(ring) = 0
      BY <2>1, QueueAssumption, SumZero DEF Pending, Valids, SumFunction
    <2>. QED
      BY <2>1, <2>2 DEF CountersAddUp, Pending, Valids
  <1>. QED
    BY <1>1, CountersStep, TypeCorrect, PTL DEF Spec

-----------------------------------------------------------------------------
(* The scheduler loop. *)

WordSet == DoneMsg \cup {GameMsg, Leftover}

(* The queue holds nothing but what was posted. *)
OnlyPosted == Contents(gfx) \in Seq(DoneMsg \cup {GameMsg})

-----------------------------------------------------------------------------
(* The waiting places of a finite queue can be counted. *)
LEMMA PlacesFinite ==
    ASSUME NEW S, NEW s \in Seq(S)
    PROVE  IsFiniteSet(Places(s)) /\ Cardinality(Places(s)) \in Nat
  <1>1. Len(s) \in Nat
    BY LenProperties
  <1>2. IsFiniteSet(1..Len(s))
    BY <1>1, FS_Interval
  <1>3. Places(s) \subseteq 1..Len(s)
    BY DEF Places
  <1>. QED
    BY <1>2, <1>3, FS_Subset, FS_CardinalityType

(* Appending the message of a task adds one place, any other message none. *)
LEMMA PlacesAppend ==
    ASSUME NEW S, NEW s \in Seq(S), NEW m \in S
    PROVE  Cardinality(Places(Append(s, m))) =
             IF m \in DoneMsg THEN Cardinality(Places(s)) + 1
                              ELSE Cardinality(Places(s))
  <1>. DEFINE n == Len(s)
  <1>1. /\ n \in Nat
        /\ Len(Append(s, m)) = n + 1
        /\ \A k \in 1..n : Append(s, m)[k] = s[k]
        /\ Append(s, m)[n + 1] = m
    BY AppendProperties, LenProperties
  <1>2. Places(Append(s, m)) =
          IF m \in DoneMsg THEN Places(s) \cup {n + 1} ELSE Places(s)
    BY <1>1 DEF Places
  <1>3. n + 1 \notin Places(s)
    BY <1>1 DEF Places
  <1>4. IsFiniteSet(Places(s))
    BY PlacesFinite
  <1>. QED
    BY <1>2, <1>3, <1>4, FS_AddElement

(* Taking the head removes one place if it was the message of a task. *)
LEMMA PlacesTail ==
    ASSUME NEW S, NEW s \in Seq(S), s # << >>
    PROVE  Cardinality(Places(s)) =
             IF Head(s) \in DoneMsg THEN Cardinality(Places(Tail(s))) + 1
                                    ELSE Cardinality(Places(Tail(s)))
  <1>. DEFINE n == Len(s)
              P == Places(s) \ {1}
              Q == Places(Tail(s))
              f == [k \in Q |-> k + 1]
  <1>1. /\ n \in Nat /\ n > 0
        /\ Tail(s) \in Seq(S) /\ Len(Tail(s)) = n - 1
        /\ \A k \in 1..(n - 1) : Tail(s)[k] = s[k + 1]
        /\ Head(s) = s[1]
    BY HeadTailProperties, LenProperties, EmptySeq
  <1>2. Q = {k \in 1..(n - 1) : s[k + 1] \in DoneMsg}
    BY <1>1 DEF Places
  <1>3. P = {k \in 2..n : s[k] \in DoneMsg}
    BY <1>1 DEF Places
  <1>4. f \in Bijection(Q, P)
    <2>. HIDE DEF P, Q
    <2>1. \A k \in Q : k + 1 \in P
      BY <1>1, <1>2, <1>3
    <2>2. \A a, b \in Q : f[a] = f[b] => a = b
      BY <1>2
    <2>3. \A p \in P : \E k \in Q : f[k] = p
      <3>. TAKE p \in P
      <3>1. p - 1 \in Q /\ (p - 1) + 1 = p
        BY <1>1, <1>2, <1>3
      <3>. QED
        BY <3>1
    <2>4. f \in [Q -> P]
      BY <2>1
    <2>. HIDE DEF f
    <2>. QED
      BY <2>2, <2>3, <2>4, Fun_IsBij
  <1>5. IsFiniteSet(Places(s)) /\ IsFiniteSet(Q) /\ Cardinality(Q) \in Nat
    BY <1>1, PlacesFinite
  <1>6. ExistsBijection(Q, P)
    BY <1>4 DEF ExistsBijection
  <1>7. IsFiniteSet(P) /\ Cardinality(P) = Cardinality(Q)
    BY <1>5, <1>6, FS_Bijection
  <1>8. 1 \in Places(s) <=> Head(s) \in DoneMsg
    BY <1>1 DEF Places
  <1>9. CASE Head(s) \in DoneMsg
    <2>1. Places(s) = P \cup {1} /\ 1 \notin P
      BY <1>8, <1>9
    <2>. QED
      BY <1>7, <1>9, <2>1, FS_AddElement
  <1>10. CASE Head(s) \notin DoneMsg
    <2>1. Places(s) = P
      BY <1>8, <1>10
    <2>. QED
      BY <1>7, <1>10, <2>1
  <1>. QED
    BY <1>9, <1>10

-----------------------------------------------------------------------------
(* Types; and the limit is never zero, so the first done message is the
   earliest at which the process stops. *)
LEMMA LimitPositive == TaskTypeOK => Limit \in Nat /\ Limit > 0
  BY RspAssumption DEF TaskTypeOK, Limit

(* The strengthening: the words in the queue were posted, which neither
   TaskTypeOK nor the accounting says. *)
TaskInv == TaskTypeOK /\ OnlyPosted /\ TasksAccounted /\ StopsExactlyAtLimit

(* Before the first task nothing is counted and nothing waits. *)
LEMMA TaskInitKeeps == TaskInit => TaskInv
  <1>. SUFFICES ASSUME TaskInit PROVE TaskInv
    OBVIOUS
  <1>. USE RspAssumption
  <1>1. RingOK(gfx, WordSet)
    BY NewRingOK DEF TaskInit, WordSet
  <1>2. Contents(gfx) = << >>
    BY DEF TaskInit, NewRing, Contents
  <1>3. TaskTypeOK
    <2>1. /\ request \in Requests /\ continue \in BOOLEAN /\ done \subseteq DoneMsg
          /\ tasks = 0 /\ delivered = 0 /\ exit = 0
          /\ reposted = 0 /\ lost = 0 /\ retyped = 0
      BY DEF TaskInit
    <2>2. Counters /\ tasks <= MaxTasks /\ reposted <= MaxReposts
      BY <2>1 DEF Counters
    <2>. QED
      BY <1>1, <2>1, <2>2 DEF TaskTypeOK, WordSet
  <1>4. OnlyPosted
    BY <1>2, EmptySeq DEF OnlyPosted
  <1>5. TasksAccounted
    <2>1. Places(<< >>) = {}
      BY DEF Places
    <2>2. Cardinality(PendingDone) = 0
      BY <1>2, <2>1, FS_EmptySet DEF PendingDone
    <2>3. tasks = 0 /\ delivered = 0 /\ reposted = 0 /\ lost = 0 /\ retyped = 0
      BY DEF TaskInit
    <2>. QED
      BY <2>2, <2>3 DEF TasksAccounted
  <1>6. StopsExactlyAtLimit
    BY <1>3, LimitPositive DEF TaskInit, StopsExactlyAtLimit, ShouldStop
  <1>. QED
    BY <1>3, <1>4, <1>5, <1>6 DEF TaskInv

(* What posting word m to the queue does to the parts of the invariant. *)
LEMMA PostEffect ==
    ASSUME TaskTypeOK, OnlyPosted, NEW m \in DoneMsg \cup {GameMsg},
           gfx' = Put(gfx, m)
    PROVE  /\ RingOK(gfx', WordSet)
           /\ OnlyPosted'
           /\ Cardinality(PendingDone) \in Nat
           /\ Cardinality(PendingDone') =
                IF m \in DoneMsg /\ CanPut(gfx) THEN Cardinality(PendingDone) + 1
                                                ELSE Cardinality(PendingDone)
  <1>. DEFINE M == DoneMsg \cup {GameMsg}
  <1>1. RingOK(gfx, WordSet) /\ m \in WordSet
    BY DEF TaskTypeOK, WordSet
  <1>2. RingOK(gfx', WordSet)
    BY <1>1, PutOK
  <1>3. Contents(gfx') =
          IF CanPut(gfx) THEN Append(Contents(gfx), m) ELSE Contents(gfx)
    BY <1>1, PutAppends DEF Put
  <1>4. Contents(gfx) \in Seq(M)
    BY DEF OnlyPosted
  <1>5. Contents(gfx') \in Seq(M)
    BY <1>3, <1>4, AppendProperties
  <1>6. Cardinality(PendingDone) \in Nat
    BY <1>4, PlacesFinite DEF PendingDone
  <1>7. CanPut(gfx) =>
          Cardinality(Places(Append(Contents(gfx), m))) =
             IF m \in DoneMsg THEN Cardinality(Places(Contents(gfx))) + 1
                              ELSE Cardinality(Places(Contents(gfx)))
    BY <1>4, PlacesAppend
  <1>. QED
    BY <1>2, <1>3, <1>5, <1>6, <1>7 DEF OnlyPosted, PendingDone

(* rspGfxTaskStart: the new task's message waits, or is lost. *)
LEMMA TaskStep ==
    ASSUME TaskInv, NEW d \in DoneMsg \cup {NoDone}, rspGfxTaskStart(d)
    PROVE  TaskInv'
  <1>. USE RspAssumption
  <1>1. StopsExactlyAtLimit'
    BY DEF TaskInv, rspGfxTaskStart, StopsExactlyAtLimit, ShouldStop, Limit, env
  <1>2. CASE d = NoDone
    <2>1. /\ tasks' = tasks + 1 /\ tasks < MaxTasks /\ lost' = lost + 1
          /\ UNCHANGED <<env, gfx, done, delivered, exit, reposted, retyped>>
      BY <1>2 DEF rspGfxTaskStart
    <2>2. TaskTypeOK'
      BY <2>1 DEF TaskInv, TaskTypeOK, Counters, env
    <2>3. OnlyPosted' /\ PendingDone' = PendingDone
      BY <2>1 DEF TaskInv, OnlyPosted, PendingDone
    <2>4. TasksAccounted'
      <3>1. /\ tasks + reposted
                 = delivered + Cardinality(PendingDone) + lost + retyped
            /\ tasks \in Nat /\ delivered \in Nat
            /\ reposted \in Nat /\ lost \in Nat /\ retyped \in Nat
        BY DEF TaskInv, TasksAccounted, TaskTypeOK, Counters
      <3>2. Cardinality(PendingDone) \in Nat
        BY PlacesFinite DEF TaskInv, OnlyPosted, PendingDone
      <3>. QED
        BY <2>1, <2>3, <3>1, <3>2 DEF TasksAccounted
    <2>. QED
      BY <1>1, <2>2, <2>3, <2>4 DEF TaskInv
  <1>3. CASE d # NoDone
    <2>1. /\ d \in DoneMsg /\ gfx' = Put(gfx, d) /\ done' = done \cup {d}
          /\ tasks' = tasks + 1 /\ tasks < MaxTasks
          /\ lost' = IF CanPut(gfx) THEN lost ELSE lost + 1
          /\ UNCHANGED <<env, delivered, exit, reposted, retyped>>
      <3>1. /\ EnqueueRefuses(gfx) <=> ~CanPut(gfx)
            /\ Enqueue(gfx, d) = Put(gfx, d)
        BY WritersAgree DEF TaskInv, TaskTypeOK
      <3>. QED
        BY <1>3, <3>1 DEF rspGfxTaskStart
    <2>2. /\ RingOK(gfx', WordSet) /\ OnlyPosted'
          /\ Cardinality(PendingDone) \in Nat
          /\ Cardinality(PendingDone') =
                IF CanPut(gfx) THEN Cardinality(PendingDone) + 1
                               ELSE Cardinality(PendingDone)
      BY <2>1, PostEffect DEF TaskInv
    <2>3. TaskTypeOK'
      BY <2>1, <2>2 DEF TaskInv, TaskTypeOK, Counters, WordSet, env
    <2>4. TasksAccounted'
      <3>1. /\ tasks + reposted
                 = delivered + Cardinality(PendingDone) + lost + retyped
            /\ tasks \in Nat /\ delivered \in Nat
            /\ reposted \in Nat /\ lost \in Nat /\ retyped \in Nat
        BY DEF TaskInv, TasksAccounted, TaskTypeOK, Counters
      <3>. QED
        BY <2>1, <2>2, <3>1 DEF TasksAccounted
    <2>. QED
      BY <1>1, <2>2, <2>3, <2>4 DEF TaskInv
  <1>. QED
    BY <1>2, <1>3

(* osRecvMesg: the message that leaves the queue is counted as delivered
   or as retyped when it was a task's, and the process stops exactly when
   the limit is reached. *)
LEMMA ReceiveStep ==
    ASSUME TaskInv, osRecvMesg
    PROVE  TaskInv'
  <1>. USE RspAssumption
  <1>. DEFINE m == Oldest(gfx)
              s == Contents(gfx)
              M == DoneMsg \cup {GameMsg}
  <1>1. /\ Running /\ CanTake(gfx) /\ gfx' = Take(gfx)
        /\ delivered' = IF m \in done THEN delivered + 1 ELSE delivered
        /\ retyped' = IF m \in DoneMsg \ done THEN retyped + 1 ELSE retyped
        /\ exit' = IF m \in done /\ ShouldStop(delivered') THEN 152 ELSE 0
        /\ UNCHANGED <<env, done, tasks, reposted, lost>>
    BY DEF osRecvMesg
  <1>2. RingOK(gfx, WordSet)
    BY DEF TaskInv, TaskTypeOK, WordSet
  <1>3. /\ s # << >> /\ m = Head(s) /\ Contents(gfx') = Tail(s)
        /\ RingOK(gfx', WordSet)
    BY <1>1, <1>2, TakeRemovesHead, TakeOK
  <1>4. s \in Seq(M)
    BY DEF TaskInv, OnlyPosted
  <1>5. OnlyPosted'
    BY <1>3, <1>4, HeadTailProperties DEF OnlyPosted
  <1>6. /\ Cardinality(Places(s)) \in Nat /\ Cardinality(Places(Tail(s))) \in Nat
        /\ Cardinality(Places(s)) =
             IF m \in DoneMsg THEN Cardinality(Places(Tail(s))) + 1
                              ELSE Cardinality(Places(Tail(s)))
    BY <1>3, <1>4, HeadTailProperties, PlacesFinite, PlacesTail
  <1>7. TaskTypeOK'
    BY <1>1, <1>3 DEF TaskInv, TaskTypeOK, Counters, WordSet, env
  <1>8. TasksAccounted'
    <2>1. /\ tasks + reposted
               = delivered + Cardinality(Places(s)) + lost + retyped
          /\ tasks \in Nat /\ delivered \in Nat
          /\ reposted \in Nat /\ lost \in Nat /\ retyped \in Nat
          /\ done \subseteq DoneMsg
      BY DEF TaskInv, TasksAccounted, TaskTypeOK, Counters, PendingDone
    <2>2. PendingDone' = Places(Tail(s))
      BY <1>3 DEF PendingDone
    <2>. HIDE DEF m, s
    <2>. QED
      BY <1>1, <1>6, <2>1, <2>2 DEF TasksAccounted
  <1>9. StopsExactlyAtLimit'
    <2>1. Limit \in Nat /\ Limit' = Limit /\ continue' = continue
      BY <1>1, LimitPositive DEF TaskInv, Limit, env
    <2>2. delivered \in Nat /\ (~continue => delivered < Limit)
      BY <1>1, <2>1 DEF TaskInv, TaskTypeOK, Counters, StopsExactlyAtLimit,
                        ShouldStop, Running
    <2>. HIDE DEF m
    <2>3. CASE m \in done
      BY <1>1, <2>1, <2>2, <2>3 DEF StopsExactlyAtLimit, ShouldStop
    <2>4. CASE m \notin done
      BY <1>1, <2>1, <2>2, <2>4 DEF StopsExactlyAtLimit, ShouldStop
    <2>. QED
      BY <2>3, <2>4
  <1>. QED
    BY <1>5, <1>7, <1>8, <1>9 DEF TaskInv

(* PostOther: what the game posts itself waits and is counted as reposted
   if it is a structure, or leaves everything as it was. *)
LEMMA PostStepKeeps ==
    ASSUME TaskInv, NEW m \in DoneMsg \cup {GameMsg}, PostOther(m)
    PROVE  TaskInv'
  <1>. USE RspAssumption
  <1>1. /\ gfx' = Put(gfx, m)
        /\ UNCHANGED <<env, done, tasks, delivered, exit, lost, retyped>>
        /\ reposted' = IF m \in DoneMsg /\ CanPut(gfx) THEN reposted + 1
                                                      ELSE reposted
        /\ m \in DoneMsg /\ CanPut(gfx) => reposted < MaxReposts
    BY DEF PostOther
  <1>2. StopsExactlyAtLimit'
    BY <1>1 DEF TaskInv, StopsExactlyAtLimit, ShouldStop, Limit, env
  <1>3. /\ RingOK(gfx', WordSet) /\ OnlyPosted'
        /\ Cardinality(PendingDone) \in Nat
        /\ Cardinality(PendingDone') =
             IF m \in DoneMsg /\ CanPut(gfx) THEN Cardinality(PendingDone) + 1
                                             ELSE Cardinality(PendingDone)
    BY <1>1, PostEffect DEF TaskInv
  <1>4. TaskTypeOK'
    BY <1>1, <1>3 DEF TaskInv, TaskTypeOK, Counters, WordSet, env
  <1>5. TasksAccounted'
    <2>1. /\ tasks + reposted
               = delivered + Cardinality(PendingDone) + lost + retyped
          /\ tasks \in Nat /\ delivered \in Nat
          /\ reposted \in Nat /\ lost \in Nat /\ retyped \in Nat
      BY DEF TaskInv, TasksAccounted, TaskTypeOK, Counters
    <2>2. CASE m \in DoneMsg /\ CanPut(gfx)
      BY <1>1, <1>3, <2>1, <2>2 DEF TasksAccounted
    <2>3. CASE ~(m \in DoneMsg /\ CanPut(gfx))
      BY <1>1, <1>3, <2>1, <2>3 DEF TasksAccounted
    <2>. QED
      BY <2>2, <2>3
  <1>. QED
    BY <1>2, <1>3, <1>4, <1>5 DEF TaskInv

(* A structure that the game retypes moves no message. *)
LEMMA ReuseStep ==
    ASSUME TaskInv, (\E d \in DoneMsg : ReuseStructure(d)) \/ UNCHANGED taskVars
    PROVE  TaskInv'
  <1>1. UNCHANGED <<env, gfx, tasks, delivered, exit, reposted, lost, retyped>>
    BY DEF ReuseStructure, taskVars, env
  <1>2. done' \subseteq DoneMsg
    BY DEF TaskInv, TaskTypeOK, ReuseStructure, taskVars
  <1>3. StopsExactlyAtLimit'
    BY <1>1 DEF TaskInv, StopsExactlyAtLimit, ShouldStop, Limit, env
  <1>. QED
    BY <1>1, <1>2, <1>3
       DEF TaskInv, TaskTypeOK, Counters, OnlyPosted, TasksAccounted, PendingDone, env

(* Every step of the loop keeps the strengthened invariant. *)
LEMMA TaskNextKeeps == TaskInv /\ [TaskNext]_taskVars => TaskInv'
  BY TaskStep, ReceiveStep, PostStepKeeps, ReuseStep DEF TaskNext

(* The strengthened invariant holds in every behaviour. *)
LEMMA TaskInvariant == TaskSpec => []TaskInv
  BY TaskInitKeeps, TaskNextKeeps, PTL DEF TaskSpec

(* The state keeps its type whatever the game does (TaskTypeOK). *)
THEOREM TaskTypeCorrect == TaskSpec => []TaskTypeOK
  <1>1. TaskInv => TaskTypeOK
    BY DEF TaskInv
  <1>. QED
    BY <1>1, TaskInvariant, PTL

(* Every task's done message, and every structure the game queued itself, is
   delivered, waiting, lost or received as something else, exactly one of
   these (TasksAccounted). *)
THEOREM TasksStayAccounted == TaskSpec => []TasksAccounted
  <1>1. TaskInv => TasksAccounted
    BY DEF TaskInv
  <1>. QED
    BY <1>1, TaskInvariant, PTL

(* The process ends with status 152 when the delivered messages reach the
   limit, and never otherwise (StopsExactlyAtLimit). *)
THEOREM StopIsExact == TaskSpec => []StopsExactlyAtLimit
  <1>1. TaskInv => StopsExactlyAtLimit
    BY DEF TaskInv
  <1>. QED
    BY <1>1, TaskInvariant, PTL
=============================================================================
