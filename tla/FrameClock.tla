----------------------------- MODULE FrameClock -----------------------------
(***************************************************************************)
(* The frame pump that stands in for the game's busy wait.                 *)
(*                                                                         *)
(* waitForNextFrame (stubs.cpp) advances ten words of guest memory by the  *)
(* frame delay it finds there, and two counters of the host by the same    *)
(* frame; it ends the process with status 150 at the configured number of  *)
(* calls.  The words lie in the csegment: initTLBPrepareContext restores   *)
(* that segment from the game's ELF file and so sets the guest's side      *)
(* back, while the host's side goes on.                                    *)
(***************************************************************************)
EXTENDS Integers

CONSTANTS
    Wrap,            \* 2^32: the host's count is 32 bits wide
    FrameTicks,      \* 775875: counts of one NTSC frame
    MaxDelay,        \* 10: the longest delay the pump believes
    Delays,          \* what the game may write as its frame delay
    Images,          \* what the ELF file may hold at the ten words
    Requests,        \* values of GOLDENEYE_FRAME_TICK_LIMIT, 0 for none
    MaxFrames,       \* bound: calls of the pump
    MaxRestores      \* bound: calls of initTLBPrepareContext

(* The ten words by address, from 0x80048490 on. *)
LastFrame == 1
CurrentFrame == 2
SpeedFrames == 3
PreviousHalf == 4
HalfFrame == 5
OddFrame == 6
HalfGained == 7
Count0 == 8
Count1 == 9
FrameDelay == 10

Words == [1..10 -> Int]

ASSUME FrameAssumption ==
    /\ Wrap \in Nat \ {0} /\ FrameTicks \in Nat
    /\ MaxDelay \in Nat \ {0}
    /\ Delays \subseteq Int
    /\ Images \subseteq Words
    /\ Requests \subseteq Nat
    /\ MaxFrames \in Nat /\ MaxRestores \in Nat

VARIABLES
    request,     \* the limit asked for in the environment
    image,       \* the ten words in the ELF file
    words,       \* the ten words in guest memory
    hostTicks,   \* g_host_frame_ticks
    hostCount,   \* g_host_frame_os_count
    exit,        \* 0 while the process runs, then its exit status
    restores,    \* calls of initTLBPrepareContext
    since,       \* history: calls of the pump since the last restore
    base         \* history: the guest's frame counter at that restore

vars == <<request, image, words, hostTicks, hostCount, exit, restores,
          since, base>>

env == <<request, image>>

Running == exit = 0

(* What frame_tick_limit makes of the request: 0 is no limit. *)
Limit == IF request \in 1..1000 THEN request ELSE 0

(* C's division of a signed word by two. *)
Half(n) == IF n >= 0 THEN n \div 2 ELSE -((-n) \div 2)

(* A wrong form: any positive delay is believed. *)
BelievedAny(delay) == IF delay > 0 THEN delay ELSE 1

(* The frames a call advances, from the delay the game left. *)
Believed(delay) == IF delay \in 1..MaxDelay THEN delay ELSE 1

(* A wrong form: the count never wraps. *)
AdvanceWide(count, delta) == count + delta * FrameTicks

(* A wrong form: one frame, whatever the delay. *)
AdvanceOne(count, delta) == (count + FrameTicks) % Wrap

(* The host's count after delta frames. *)
Advance(count, delta) == (count + delta * FrameTicks) % Wrap

(* A wrong form: the previous half is read after the new one was written. *)
PumpedLate(w, delta, count) ==
    LET next == w[CurrentFrame] + delta IN
    [w EXCEPT ![Count0] = w[Count1],
              ![Count1] = count,
              ![LastFrame] = w[CurrentFrame],
              ![CurrentFrame] = next,
              ![SpeedFrames] = delta,
              ![PreviousHalf] = Half(next),
              ![HalfFrame] = Half(next),
              ![OddFrame] = next % 2,
              ![HalfGained] = 0,
              ![FrameDelay] = 1]

(* The ten words after a call that advances delta frames. *)
Pumped(w, delta, count) ==
    LET next == w[CurrentFrame] + delta IN
    [w EXCEPT ![Count0] = w[Count1],
              ![Count1] = count,
              ![LastFrame] = w[CurrentFrame],
              ![CurrentFrame] = next,
              ![SpeedFrames] = delta,
              ![PreviousHalf] = w[HalfFrame],
              ![HalfFrame] = Half(next),
              ![OddFrame] = next % 2,
              ![HalfGained] = Half(next) - w[HalfFrame],
              ![FrameDelay] = 1]

(* A wrong form: stops one call late. *)
LimitHitLate(ticks, w) == Limit # 0 /\ ticks > Limit

(* A wrong form: compares the guest's counter, which may jump the limit. *)
LimitHitOnGuest(ticks, w) == Limit # 0 /\ w[CurrentFrame] = Limit

(* The test at the end of a call: the host's calls, not the guest's frames. *)
LimitHit(ticks, w) == Limit # 0 /\ ticks >= Limit

Init ==
    /\ request \in Requests
    /\ image \in Images
    /\ words = [k \in 1..10 |-> 0]
    /\ hostTicks = 0
    /\ hostCount = 0
    /\ exit = 0
    /\ restores = 0
    /\ since = 0
    /\ base = 0

-----------------------------------------------------------------------------
waitForNextFrame ==
    /\ Running
    /\ hostTicks < MaxFrames
    /\ LET delta == Believed(words[FrameDelay]) IN
       /\ hostCount' = Advance(hostCount, delta)
       /\ words' = Pumped(words, delta, hostCount')
    /\ hostTicks' = hostTicks + 1
    /\ exit' = IF LimitHit(hostTicks', words') THEN 150 ELSE 0
    /\ since' = since + 1
    /\ UNCHANGED <<env, restores, base>>

(* The csegment restore.  It writes from the low addresses up: when the read
   breaks off, the first n words are the file's and the others what they
   were; n = 10 is a restore that succeeds, or breaks off further up, and
   n = 0 one that fails before it writes these. *)
initTLBPrepareContext(n) ==
    /\ Running
    /\ restores < MaxRestores
    /\ words' = [k \in 1..10 |-> IF k <= n THEN image[k] ELSE words[k]]
    /\ restores' = restores + 1
    /\ IF n = 0 THEN UNCHANGED <<since, base>>
                ELSE since' = 0 /\ base' = words'[CurrentFrame]
    /\ UNCHANGED <<env, hostTicks, hostCount, exit>>

(* The game asks for a longer frame. *)
SetFrameDelay(delay) ==
    /\ Running
    /\ words' = [words EXCEPT ![FrameDelay] = delay]
    /\ UNCHANGED <<env, hostTicks, hostCount, exit, restores, since, base>>

Next ==
    \/ waitForNextFrame
    \/ \E n \in 0..10 : initTLBPrepareContext(n)
    \/ \E delay \in Delays : SetFrameDelay(delay)

(* The game's main loop comes back to the pump. *)
Spec == Init /\ [][Next]_vars /\ WF_vars(waitForNextFrame)

-----------------------------------------------------------------------------
TypeOK ==
    /\ request \in Requests /\ image \in Images
    /\ words \in Words
    /\ hostTicks \in 0..MaxFrames
    /\ hostCount \in 0..(Wrap - 1)
    /\ exit \in {0, 150}
    /\ restores \in 0..MaxRestores
    /\ since \in 0..hostTicks
    /\ base \in Int

(* Two calls of the pump after a restore, whatever it left and wherever it
   broke off, the guest's words tell one story again: the frames, their
   halves and the counts all advanced by the same delta. *)
OneFrameOld ==
    /\ words[HalfFrame] = Half(words[CurrentFrame])
    /\ words[OddFrame] = words[CurrentFrame] % 2
    /\ words[Count1] = hostCount
    /\ words[SpeedFrames] \in 1..MaxDelay
    /\ words[LastFrame] = words[CurrentFrame] - words[SpeedFrames]

TwoFramesOld ==
    /\ words[HalfGained] = Half(words[CurrentFrame]) - Half(words[LastFrame])
    /\ words[Count1] = Advance(words[Count0], words[SpeedFrames])

SettlesInTwo ==
    /\ since >= 1 => OneFrameOld
    /\ since >= 2 => TwoFramesOld

(* Since the last restore the guest has played at least one and at most
   MaxDelay frames in every call of the pump, whatever delays it wrote; the
   host has counted those calls and the ones before. *)
FramesBracketed ==
    /\ since <= words[CurrentFrame] - base
    /\ words[CurrentFrame] - base <= MaxDelay * since

(* The host's count and the guest's frames keep their distance through all
   calls of the pump; only a restore sets them apart. *)
Drift == (hostCount - FrameTicks * words[CurrentFrame]) % Wrap

NoDriftButByRestore == [][since' # 0 => Drift' = Drift]_vars

(* The process stops at the call of the pump that reaches the limit and at no
   other, however many frames the guest counted and however often its
   counter was set back. *)
StopsExactlyAtLimit ==
    /\ Limit # 0 => hostTicks <= Limit
    /\ exit = 150 <=> Limit # 0 /\ hostTicks = Limit

(* A limit that is set is reached. *)
LimitReached == Limit # 0 ~> ~Running
=============================================================================
