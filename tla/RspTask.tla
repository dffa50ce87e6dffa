------------------------------- MODULE RspTask -------------------------------
(***************************************************************************)
(* The scheduler loop between the generated game and the host RSP shim.    *)
(*                                                                         *)
(* The game submits a display list (rspGfxTaskStart, stubs.cpp); the host  *)
(* walks it at once, marks the task's message structure as an              *)
(* OS_SC_DONE_MSG and posts its address to gfxFrameMsgQ.  The game's loop  *)
(* receives from that queue (osRecvMesg_recomp, libultra_stubs.cpp); the   *)
(* receive that takes out a message whose type reads "done" counts it, and *)
(* ends the process with status 152 when the configured number was         *)
(* delivered (runtime.cpp).                                                *)
(*                                                                         *)
(* The message type is read from guest memory when the message is taken    *)
(* out, not when it was posted: the game may have reused the structure in  *)
(* between.  The walk of the display list changes no state of this module. *)
(***************************************************************************)
EXTENDS MesgRing, FiniteSets

CONSTANTS
    DoneMsg,         \* message structures the game passes with its tasks
    NoDone,          \* address 0: a task without a done message
    GameMsg,         \* any other message of the game, e.g. a retrace
    Leftover,        \* what an unused slot of the queue's buffer holds
    Count,           \* the slots gfxFrameMsgQ was created with
    Requests,        \* values of GOLDENEYE_RSP_TASK_LIMIT, 0 for none
    MaxTasks,        \* bound: how many tasks the game submits
    MaxReposts       \* bound: how often it posts a structure itself

ASSUME RspAssumption ==
    /\ NoDone \notin DoneMsg /\ GameMsg \notin DoneMsg
    /\ Leftover \notin DoneMsg
    /\ Count \in Nat \ {0}
    /\ Requests \subseteq Nat
    /\ MaxTasks \in Nat /\ MaxReposts \in Nat

VARIABLES
    request,     \* the limit asked for in the environment
    continue,    \* GOLDENEYE_CONTINUE_AFTER_RSP_TASK
    gfx,         \* gfxFrameMsgQ
    done,        \* the structures whose type reads OS_SC_DONE_MSG
    tasks,       \* rsp_tasks_started
    delivered,   \* rsp_done_messages_delivered
    exit,        \* 0 while the process runs, then its exit status
    reposted,    \* history: structures the game itself queued
    lost,        \* history: tasks whose message was not queued
    retyped      \* history: messages of tasks received as something else

taskVars == <<request, continue, gfx, done, tasks, delivered, exit, reposted,
              lost, retyped>>

env == <<request, continue>>

Running == exit = 0

(* What goldeneye_runtime_rsp_task_limit makes of the request. *)
Limit == IF request \in 1..1000 THEN request ELSE 1

(* A wrong form: one task too many. *)
ShouldStopLate(n) == ~continue /\ n > Limit

(* goldeneye_runtime_should_stop_after_rsp_done, for a count of n. *)
ShouldStop(n) == ~continue /\ n >= Limit

TaskInit ==
    /\ request \in Requests
    /\ continue \in BOOLEAN
    /\ gfx = NewRing(Count, TRUE, Leftover)
    /\ done = {}
    /\ tasks = 0
    /\ delivered = 0
    /\ exit = 0
    /\ reposted = 0
    /\ lost = 0
    /\ retyped = 0

-----------------------------------------------------------------------------
(* No limit is tested here: a task is consumed whenever the game submits
   one. *)
rspGfxTaskStart(d) ==
    /\ Running
    /\ tasks < MaxTasks
    /\ tasks' = tasks + 1
    /\ \/ /\ d = NoDone
          /\ lost' = lost + 1
          /\ UNCHANGED <<gfx, done>>
       \/ /\ d # NoDone
          /\ done' = done \cup {d}
          /\ gfx' = Enqueue(gfx, d)
          /\ lost' = IF EnqueueRefuses(gfx) THEN lost + 1 ELSE lost
    /\ UNCHANGED <<env, delivered, exit, reposted, retyped>>

(* A wrong form: a message that is not a done message stays in the queue. *)
RecvOnlyDone ==
    /\ Running
    /\ CanTake(gfx)
    /\ Oldest(gfx) \in done
    /\ gfx' = Take(gfx)
    /\ delivered' = delivered + 1
    /\ exit' = IF ShouldStop(delivered') THEN 152 ELSE 0
    /\ UNCHANGED <<env, done, tasks, reposted, lost, retyped>>

(* A receive that finds a message: count it if its type now reads done, and
   stop the process if that was the last one asked for. *)
osRecvMesg ==
    /\ Running
    /\ CanTake(gfx)
    /\ gfx' = Take(gfx)
    /\ LET m == Oldest(gfx)
           isDone == m \in done
       IN /\ delivered' = IF isDone THEN delivered + 1 ELSE delivered
          /\ retyped' = IF m \in DoneMsg \ done THEN retyped + 1 ELSE retyped
          /\ exit' = IF isDone /\ ShouldStop(delivered') THEN 152 ELSE 0
    /\ UNCHANGED <<env, done, tasks, reposted, lost>>

(* What the game posts to the queue itself, by osSendMesg, osSetEventMesg
   or a transfer's completion.  Nothing keeps it from posting a structure
   that it also passes with its tasks. *)
PostOther(m) ==
    /\ Running
    /\ gfx' = Put(gfx, m)
    /\ \/ /\ m \in DoneMsg /\ CanPut(gfx)
          /\ reposted < MaxReposts
          /\ reposted' = reposted + 1
       \/ /\ ~(m \in DoneMsg /\ CanPut(gfx))
          /\ UNCHANGED reposted
    /\ UNCHANGED <<env, done, tasks, delivered, exit, lost, retyped>>

(* The game writes the type of a message structure: done, or another. *)
ReuseStructure(d) ==
    /\ Running
    /\ done' \in {done \ {d}, done \cup {d}}
    /\ UNCHANGED <<env, gfx, tasks, delivered, exit, reposted, lost, retyped>>

TaskNext ==
    \/ \E d \in DoneMsg \cup {NoDone} : rspGfxTaskStart(d)
    \/ osRecvMesg
    \/ \E m \in DoneMsg \cup {GameMsg} : PostOther(m)
    \/ \E d \in DoneMsg : ReuseStructure(d)

(* The game's main loop always comes back to its receive. *)
TaskSpec == TaskInit /\ [][TaskNext]_taskVars /\ WF_taskVars(osRecvMesg)

-----------------------------------------------------------------------------
Counters == /\ tasks \in Nat /\ delivered \in Nat
            /\ reposted \in Nat /\ lost \in Nat /\ retyped \in Nat

TaskTypeOK ==
    /\ RingOK(gfx, DoneMsg \cup {GameMsg, Leftover})
    /\ request \in Requests /\ continue \in BOOLEAN
    /\ done \subseteq DoneMsg
    /\ Counters
    /\ tasks <= MaxTasks /\ reposted <= MaxReposts
    /\ exit \in {0, 152}

(* The places in s where the structure of a task waits. *)
Places(s) == {k \in 1..Len(s) : s[k] \in DoneMsg}

PendingDone == Places(Contents(gfx))

(* Every task's message, and every structure the game queued itself, is in
   exactly one place: delivered, waiting, lost (no structure, or a full
   queue) or received as something else.  The counters live in runtime.cpp,
   the queue in guest memory, and three functions in two files move messages
   between them. *)
TasksAccounted ==
    tasks + reposted = delivered + Cardinality(PendingDone) + lost + retyped

(* The process stops at the done message that reaches the limit and at no
   other moment, and never when asked to continue. *)
StopsExactlyAtLimit ==
    /\ ~continue => delivered <= Limit
    /\ exit = 152 <=> ShouldStop(delivered)

(* A message waiting in the queue gets out, unless the process stops. *)
QueueDrains ==
    \A k \in 1..(MaxTasks + MaxReposts) :
        (delivered + retyped < k /\ k <= tasks + reposted - lost)
            ~> (delivered + retyped >= k \/ ~Running)

(* README.md:99: GOLDENEYE_RSP_TASK_LIMIT "controls how many generated
   display-list tasks the host shim consumes before stopping". *)
TasksWithinLimit == ~continue => tasks <= Limit
=============================================================================
