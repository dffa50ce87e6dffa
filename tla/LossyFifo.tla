------------------------------ MODULE LossyFifo ------------------------------
(***************************************************************************)
(* What the message queues promise the game, with no ring in sight: each   *)
(* queue is a bounded FIFO.  A message posted to a queue with room is      *)
(* appended; one posted to a full queue is lost, and only then; a receive  *)
(* returns the oldest pending message, each exactly once.  A receive on an *)
(* empty queue has no message of the queue to give: it fails, or answers   *)
(* with the synthetic retrace.  Opening a queue again forgets what was     *)
(* pending.                                                                *)
(*                                                                         *)
(* "call" is what the caller sees of the last call: which one it was, on   *)
(* which queue, the message sent or received, and the result in r2.        *)
(***************************************************************************)
EXTENDS Naturals, Sequences

CONSTANTS Queue,      \* the queues
          Msg,        \* what can be sent
          Retrace,    \* the answer made up for a blocking receive
          NoMsg,      \* what a receive that delivers nothing shows
          NoQueue     \* an address that is not a usable queue

VARIABLES fifo,       \* fifo[q]: the pending messages, oldest first
          cap,        \* cap[q]: how many may be pending
          call        \* the last call, as its caller saw it

vars == <<fifo, cap, call>>

Seen(op, q, m, ok) == [op |-> op, queue |-> q, msg |-> m, ok |-> ok]

(* The calls that post a message.  Only osSendMesg and
   enqueue_runtime_message tell whether the message was taken; osSendMesg
   says so of any message to a queue that was created without a buffer. *)
Posting == {"osSendMesg", "osSetEventMesg", "osPiStartDma",
            "enqueue_runtime_message"}

Room(q) == Len(fifo[q]) < cap[q]

Init ==
    /\ fifo = [q \in Queue |-> << >>]
    /\ cap = [q \in Queue |-> 0]
    /\ call = Seen("boot", NoQueue, NoMsg, TRUE)

Open(q) ==
    /\ fifo' = [fifo EXCEPT ![q] = << >>]
    /\ cap' \in [Queue -> Nat]
    /\ \A p \in Queue \ {q} : cap'[p] = cap[p]
    /\ call' = Seen("osCreateMesgQueue", q, NoMsg, TRUE)

Post(op, q, m, ok) ==
    /\ fifo' = IF Room(q) THEN [fifo EXCEPT ![q] = Append(@, m)] ELSE fifo
    /\ op \in {"osSendMesg", "enqueue_runtime_message"} /\ cap[q] > 0
          => (ok <=> Room(q))
    /\ call' = Seen(op, q, m, ok)
    /\ UNCHANGED cap

Deliver(q) ==
    /\ fifo[q] # << >>
    /\ call' = Seen("osRecvMesg", q, Head(fifo[q]), TRUE)
    /\ fifo' = [fifo EXCEPT ![q] = Tail(@)]
    /\ UNCHANGED cap

ReceiveNothing(q) ==
    /\ fifo[q] = << >>
    /\ \/ call' = Seen("osRecvMesg", q, Retrace, TRUE)
       \/ call' = Seen("osRecvMesg", q, NoMsg, FALSE)
    /\ UNCHANGED <<fifo, cap>>

(* A call that never reaches a queue: a bad address, a negative count, a
   transfer that failed. *)
Refuse ==
    /\ \E op \in Posting \cup {"osCreateMesgQueue", "osRecvMesg"},
          ok \in BOOLEAN :
           call' = Seen(op, NoQueue, NoMsg, ok)
    /\ UNCHANGED <<fifo, cap>>

Next ==
    \/ \E q \in Queue : Open(q) \/ Deliver(q) \/ ReceiveNothing(q)
    \/ \E op \in Posting, q \in Queue, m \in Msg, ok \in BOOLEAN :
           Post(op, q, m, ok)
    \/ Refuse

Spec == Init /\ [][Next]_vars
=============================================================================
