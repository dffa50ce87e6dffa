------------------------------ MODULE MesgQueue ------------------------------
(***************************************************************************)
(* The message queues of the runtime: osCreateMesgQueue, osSendMesg,       *)
(* osRecvMesg, osSetEventMesg and the completion message of osPiStartDma   *)
(* (libultra_stubs.cpp), and enqueue_runtime_message (stubs.cpp).          *)
(*                                                                         *)
(* The runtime is single threaded: a call runs to its end before the next  *)
(* one, so a call is one step.  The generated game code decides which call *)
(* comes next and with which arguments; here any call may come.            *)
(*                                                                         *)
(* The stop that osRecvMesg may cause on the graphics queue is RspTask's.  *)
(***************************************************************************)
EXTENDS MesgRing, FiniteSets, Functions

CONSTANTS Queue,      \* addresses of queue headers the runtime can access
          NoQueue,    \* address 0, or one the runtime cannot access
          Msg,        \* message words the game sends
          DmaDone,    \* the word 0 that osPiStartDma posts
          Retrace,    \* kSyntheticRetraceMsg
          Word,       \* what else a buffer word may hold: leftovers
          NoMsg,      \* what a call that delivers nothing shows
          MaxCount,   \* bound: the most slots a queue is created with
          MaxCalls    \* bound: how many calls the game makes

ASSUME QueueAssumption ==
    /\ IsFiniteSet(Queue) /\ NoQueue \notin Queue
    /\ DmaDone \in Msg
    /\ Word \notin Msg
    /\ NoMsg \notin Msg
    /\ MaxCount \in Nat
    /\ MaxCalls \in Nat

VARIABLES ring,       \* ring[q]: the header and the buffer of queue q
          created,    \* message_queues_created
          sent,       \* messages_sent
          received,   \* messages_received
          call,       \* the last call, as its caller saw it
          discarded,  \* history: messages forgotten by a second creation
          synthetic,  \* history: receives answered with Retrace
          calls       \* how many calls were made

vars == <<ring, created, sent, received, call, discarded, synthetic, calls>>

counters == <<created, sent, received, discarded, synthetic>>

Seen(op, q, m, ok) == [op |-> op, queue |-> q, msg |-> m, ok |-> ok]

Init ==
    /\ ring = [q \in Queue |-> NoRing]
    /\ created = 0
    /\ sent = 0
    /\ received = 0
    /\ call = Seen("boot", NoQueue, NoMsg, TRUE)
    /\ discarded = 0
    /\ synthetic = 0
    /\ calls = 0

Called ==
    /\ calls < MaxCalls
    /\ calls' = calls + 1

(* A wrong form: the counter moves although the queue was full. *)
SendCountedAlways(q, m) ==
    /\ ring' = [ring EXCEPT ![q] = Put(@, m)]
    /\ sent' = sent + 1
    /\ UNCHANGED <<created, received, discarded, synthetic>>

(* send_queue_message on queue q: the ring and the counter it leaves. *)
SendQueueMessage(q, m) ==
    /\ ring' = [ring EXCEPT ![q] = Put(@, m)]
    /\ sent' = IF CanPut(ring[q]) THEN sent + 1 ELSE sent
    /\ UNCHANGED <<created, received, discarded, synthetic>>

-----------------------------------------------------------------------------
osCreateMesgQueue(q, hasBuf, n) ==
    /\ Called
    /\ n >= 0
    /\ ring' = [ring EXCEPT ![q] = NewRing(n, hasBuf, Word)]
    /\ created' = created + 1
    /\ discarded' = discarded + ring[q].valid
    /\ call' = Seen("osCreateMesgQueue", q, NoMsg, TRUE)
    /\ UNCHANGED <<sent, received, synthetic>>

(* The flag that asks a send to block is ignored: a full queue refuses. *)
osSendMesg(q, m) ==
    /\ Called
    /\ \/ /\ ring[q].count <= 0 \/ ring[q].valid >= ring[q].count
          /\ call' = Seen("osSendMesg", q, m, FALSE)
          /\ UNCHANGED <<ring, counters>>
       \/ /\ ring[q].count > 0 /\ ring[q].valid < ring[q].count
          /\ call' = Seen("osSendMesg", q, m, TRUE)
          /\ SendQueueMessage(q, m)

(* Registering an event posts its message at once; the result is always
   kOsOk. *)
osSetEventMesg(q, m) ==
    /\ Called
    /\ SendQueueMessage(q, m)
    /\ call' = Seen("osSetEventMesg", q, m, TRUE)

(* A transfer that copied posts its completion, the word 0. *)
osPiStartDma(q) ==
    /\ Called
    /\ SendQueueMessage(q, DmaDone)
    /\ call' = Seen("osPiStartDma", q, DmaDone, TRUE)

(* The twin of send_queue_message: it tells whether it posted, and counts
   by itself.  It has no queue_ready before it, only a test for address 0;
   of a header it cannot read every word is 0, so it refuses those too. *)
enqueue_runtime_message(q, m) ==
    /\ Called
    /\ ring' = [ring EXCEPT ![q] = Enqueue(@, m)]
    /\ sent' = IF EnqueueRefuses(ring[q]) THEN sent ELSE sent + 1
    /\ call' = Seen("enqueue_runtime_message", q, m, ~EnqueueRefuses(ring[q]))
    /\ UNCHANGED <<created, received, discarded, synthetic>>

(* Nothing pending: a blocking receive with somewhere to put the answer is
   told of a retrace, any other fails. *)
ReceiveEmpty(q, block, out) ==
    /\ Called
    /\ ~CanTake(ring[q])
    /\ \/ /\ block /\ out
          /\ call' = Seen("osRecvMesg", q, Retrace, TRUE)
          /\ received' = received + 1
          /\ synthetic' = synthetic + 1
       \/ /\ ~(block /\ out)
          /\ call' = Seen("osRecvMesg", q, NoMsg, FALSE)
          /\ UNCHANGED <<received, synthetic>>
    /\ UNCHANGED <<ring, created, sent, discarded>>

ReceivePending(q) ==
    /\ Called
    /\ CanTake(ring[q])
    /\ call' = Seen("osRecvMesg", q, Oldest(ring[q]), TRUE)
    /\ ring' = [ring EXCEPT ![q] = Take(@)]
    /\ received' = received + 1
    /\ UNCHANGED <<created, sent, discarded, synthetic>>

(* What the callers refuse before they reach a queue: queue_ready says no,
   a creation asks for a negative count, a transfer copied nothing. *)
Refuse(op, ok) ==
    /\ Called
    /\ call' = Seen(op, NoQueue, NoMsg, ok)
    /\ UNCHANGED <<ring, counters>>

(* Which calls admit it, and which answer kOsOk all the same. *)
Admitting == {"osCreateMesgQueue", "osSendMesg", "osRecvMesg",
              "osPiStartDma", "enqueue_runtime_message"}
Silent == {"osSetEventMesg", "osPiStartDma"}

Next ==
    \/ \E q \in Queue, hasBuf \in BOOLEAN, n \in 0..MaxCount :
           osCreateMesgQueue(q, hasBuf, n)
    \/ \E q \in Queue, m \in Msg : osSendMesg(q, m)
    \/ \E q \in Queue, m \in Msg : osSetEventMesg(q, m)
    \/ \E q \in Queue : osPiStartDma(q)
    \/ \E q \in Queue, m \in Msg : enqueue_runtime_message(q, m)
    \/ \E q \in Queue, block, out \in BOOLEAN : ReceiveEmpty(q, block, out)
    \/ \E q \in Queue : ReceivePending(q)
    \/ \E op \in Admitting : Refuse(op, FALSE)
    \/ \E op \in Silent : Refuse(op, TRUE)

Spec == Init /\ [][Next]_vars

-----------------------------------------------------------------------------
(* Type correctness, and the ring's shape: a header the two writers and the
   reader all read correctly, whatever mix of calls built it. *)
TypeOK ==
    /\ ring = [q \in Queue |-> ring[q]]
    /\ \A q \in Queue : RingOK(ring[q], Msg \cup {Word})
    /\ created \in Nat /\ sent \in Nat /\ received \in Nat
    /\ discarded \in Nat /\ synthetic \in Nat
    /\ calls \in 0..MaxCalls

(* The diagnostics add up: every message counted as sent was received, is
   still pending in some queue, or was forgotten when its queue was created
   a second time; what was received beyond that was made up.  The counters
   are kept by two writers and one reader in two files. *)
CountersAddUp ==
    sent = (received - synthetic) + discarded
           + SumFunction([q \in Queue |-> ring[q].valid])

(* The rings implement the bounded FIFO: order, exactly-once delivery, loss
   only when full, and a truthful result of osSendMesg. *)
Fifo == INSTANCE LossyFifo
            WITH fifo <- [q \in Queue |-> Contents(ring[q])],
                 cap <- [q \in Queue |-> Capacity(ring[q])]

ImplementsFifo == Fifo!Spec
=============================================================================
