------------------------------ MODULE MesgRing ------------------------------
(***************************************************************************)
(* The OSMesgQueue ring buffer in guest memory, as the two writers         *)
(* (send_queue_message in libultra_stubs.cpp, enqueue_runtime_message in   *)
(* stubs.cpp) and the one reader (osRecvMesg_recomp) treat it.             *)
(*                                                                         *)
(* A ring is the queue header and the words of its buffer:                 *)
(*   valid  the word at +0x08, the number of pending messages              *)
(*   first  the word at +0x0C, the slot of the oldest one                  *)
(*   count  the word at +0x10, the number of slots                         *)
(*   buf    whether the word at +0x14, the buffer's address, is non-zero   *)
(*   slot   the buffer's words, 0 .. count-1                               *)
(* A buffer belongs to one queue and does not overlap a header: that is    *)
(* the contract of osCreateMesgQueue.                                      *)
(***************************************************************************)
EXTENDS Integers, Sequences

(* A header in zeroed guest memory: no queue was created there. *)
NoRing == [valid |-> 0, first |-> 0, count |-> 0, buf |-> FALSE,
           slot |-> [i \in {} |-> 0]]

(* What osCreateMesgQueue leaves: an empty ring whose buffer still holds
   the words memory had there. *)
NewRing(n, hasBuf, word) ==
    [valid |-> 0, first |-> 0, count |-> n, buf |-> hasBuf,
     slot |-> [i \in 0..(n - 1) |-> word]]

CanPut(r) ==
    /\ r.count > 0
    /\ r.valid >= 0
    /\ r.valid < r.count
    /\ r.buf

PutSlot(r) == (r.first + r.valid) % r.count

(* A wrong form: a full ring takes the message all the same. *)
PutOverwriting(r, m) ==
    IF r.count > 0 /\ r.buf
    THEN [r EXCEPT !.slot[PutSlot(r)] = m,
                   !.valid = IF @ < r.count THEN @ + 1 ELSE @]
    ELSE r

(* send_queue_message: a ring that cannot take the message is left alone. *)
Put(r, m) ==
    IF CanPut(r)
    THEN [r EXCEPT !.slot[PutSlot(r)] = m, !.valid = @ + 1]
    ELSE r

(* enqueue_runtime_message, the other writer, reads the header and chooses
   the slot by code of its own. *)
EnqueueRefuses(r) ==
    r.count <= 0 \/ r.valid < 0 \/ r.valid >= r.count \/ ~r.buf

(* A wrong form: the next slot counted from the start of the buffer. *)
EnqueueSlotFromZero(r) == r.valid % r.count

EnqueueSlot(r) == (r.first + r.valid) % r.count

Enqueue(r, m) ==
    IF EnqueueRefuses(r) THEN r
    ELSE [r EXCEPT !.slot[EnqueueSlot(r)] = m, !.valid = @ + 1]

CanTake(r) == r.valid > 0 /\ r.count > 0 /\ r.buf

Oldest(r) == r.slot[r.first]

(* A wrong form: the first slot does not wrap. *)
TakeUnwrapped(r) == [r EXCEPT !.first = @ + 1, !.valid = @ - 1]

Take(r) == [r EXCEPT !.first = (@ + 1) % r.count, !.valid = @ - 1]

-----------------------------------------------------------------------------
(* The pending messages, oldest first. *)
Contents(r) == [k \in 1..r.valid |-> r.slot[(r.first + k - 1) % r.count]]

(* The room a ring offers: none without a buffer. *)
Capacity(r) == IF r.buf THEN r.count ELSE 0

(* A well-formed ring whose words are in W. *)
RingOK(r, W) ==
    /\ r \in [valid : Nat, first : Nat, count : Nat, buf : BOOLEAN,
              slot : [0..(r.count - 1) -> W]]
    /\ r.valid <= r.count
    /\ r.first < r.count \/ (r.first = 0 /\ r.count = 0)
    /\ r.valid > 0 => r.buf
=============================================================================
