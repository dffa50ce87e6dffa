------------------------------ MODULE HostTime ------------------------------
(***************************************************************************)
(* The counter that replaces the machine's clock, and the 64-bit           *)
(* arithmetic the game computes times with (libultra_stubs.cpp).           *)
(*                                                                         *)
(* host_counter_ticks moves by a fixed step whenever it is asked and at no *)
(* other moment.  osGetTime answers with its 64 bits in r2 and r3,         *)
(* osGetCount with the lower word in r2.  Generated code waits in loops    *)
(* that ask for the count until enough of it has gone by since they began, *)
(* and hands a time or a result on to the helpers, which take r4, r5 and   *)
(* r6, r7 and answer in r2, r3.  Signed overflow is undefined in C++: the  *)
(* product wraps on every build, as the machine's multiply does; the       *)
(* quotient of the least number and -1 wraps on AArch64 and raises SIGFPE  *)
(* on x86-64, which no handler of the probe catches.                       *)
(***************************************************************************)
EXTENDS WidePairs

CONSTANTS
    Step,            \* 0x5EB61: the counter's step per query
    Targets,         \* the counts that the game's loops wait for
    Values,          \* numbers the game computes with
    NoLoop           \* no loop waits

ASSUME HostTimeAssumption ==
    /\ Step \in 1..(Word - 1)
    /\ Targets \subseteq 0..(Word - Step)
    /\ Values \subseteq 0..(Wide - 1)
    /\ NoLoop \notin [start : 0..(Word - 1), target : Targets, elapsed : Nat]

VARIABLES
    counter,     \* g_host_counter_ticks
    r2, r3,      \* the last answer
    loop,        \* a loop of the game: the count it began with and waits for,
                 \* and (history) how far the counter moved since
    trapped      \* the machine raised SIGFPE

timeVars == <<counter, r2, r3, loop, trapped>>

(* A wrong form: the counter stands still. *)
TickedNot(c) == c

(* A wrong form: the counter is a single word. *)
TickedNarrow(c) == (c + Step) % Word

(* host_counter_ticks: the counter after a query. *)
Ticked(c) == (c + Step) % Wide

(* osGetCount_recomp's answer: the lower word. *)
CountOf(c) == c % Word

TimeInit ==
    /\ counter = 0
    /\ r2 = 0 /\ r3 = 0
    /\ loop = NoLoop
    /\ trapped = FALSE

-----------------------------------------------------------------------------
(* The operands: numbers as generated code keeps them in registers, or the
   answer that is there. *)
Operands ==
    {<<SignExtended(v \div Word), SignExtended(v % Word)>> : v \in Values}
        \cup {<<r2, r3>>}

Number(pair) == PairToU64(pair[1], pair[2])

Abs(n) == IF n < 0 THEN -n ELSE n

(* C's quotient, towards zero. *)
Quotient(a, b) ==
    LET q == Abs(a) \div Abs(b) IN IF (a < 0) = (b < 0) THEN q ELSE -q

ll_mul(l, r) ==
    U64ToPair(Unsigned(Signed(Number(l)) * Signed(Number(r))))

(* A wrong form: the quotient of the unsigned numbers. *)
ll_div_unsigned(l, r) ==
    U64ToPair(IF Number(r) = 0 THEN 0 ELSE Number(l) \div Number(r))

ll_div(l, r) ==
    U64ToPair(IF Number(r) = 0 THEN 0
              ELSE Unsigned(Quotient(Signed(Number(l)), Signed(Number(r)))))

ull_div(l, r) ==
    U64ToPair(IF Number(r) = 0 THEN 0 ELSE Number(l) \div Number(r))

ull_rem(l, r) ==
    U64ToPair(IF Number(r) = 0 THEN 0 ELSE Number(l) % Number(r))

(* A quotient that has no 64-bit value. *)
NoQuotient(l, r) == Signed(Number(l)) = -(Wide \div 2) /\ Signed(Number(r)) = -1

-----------------------------------------------------------------------------
(* Generated code runs on and is in no loop. *)
Free == loop = NoLoop /\ ~trapped

(* osGetTime_recomp *)
osGetTime ==
    /\ Free
    /\ counter' = Ticked(counter)
    /\ r2' = U64ToPair(counter')[1]
    /\ r3' = U64ToPair(counter')[2]
    /\ UNCHANGED <<loop, trapped>>

(* osGetCount_recomp *)
osGetCount ==
    /\ counter' = Ticked(counter)
    /\ r2' = CountOf(counter')
    /\ UNCHANGED <<r3, trapped>>

(* A loop of the game reads the count it starts from ... *)
BeginWait(t) ==
    /\ Free
    /\ osGetCount
    /\ loop' = [start |-> r2', target |-> t, elapsed |-> 0]

(* The game's test: the difference of two counts, as words. *)
Done(count) == (count - loop.start) % Word >= loop.target

(* How far the counter moved in this step. *)
Moved == (counter' - counter) % Wide

(* ... and asks again until the difference is large enough. *)
Poll ==
    /\ loop # NoLoop
    /\ osGetCount
    /\ loop' = IF Done(r2') THEN NoLoop
               ELSE [loop EXCEPT !.elapsed = @ + Moved]

(* One of the four helpers. *)
Compute(l, r) ==
    /\ Free
    /\ \E answer \in {ll_mul(l, r), ll_div(l, r), ull_div(l, r), ull_rem(l, r)} :
            r2' = answer[1] /\ r3' = answer[2]
    /\ UNCHANGED <<counter, loop, trapped>>

(* __ll_div_recomp where the machine raises SIGFPE. *)
Trap(l, r) ==
    /\ Free
    /\ NoQuotient(l, r)
    /\ trapped' = TRUE
    /\ UNCHANGED <<counter, r2, r3, loop>>

TimeNext ==
    \/ osGetTime
    \/ Poll
    \/ \E t \in Targets : BeginWait(t)
    \/ \E l \in Operands, r \in Operands : Compute(l, r) \/ Trap(l, r)

(* A loop that waits does nothing but ask. *)
TimeSpec == TimeInit /\ [][TimeNext]_timeVars /\ WF_timeVars(Poll)

-----------------------------------------------------------------------------
(* The registers hold single words, and a process that trapped waits in no
   loop. *)
TimeTypeOK ==
    /\ counter \in Gpr
    /\ r2 \in 0..(Word - 1) /\ r3 \in 0..(Word - 1)
    /\ loop \in {NoLoop} \cup [start : 0..(Word - 1), target : Targets,
                               elapsed : Nat]
    /\ trapped \in BOOLEAN
    /\ trapped => loop = NoLoop

(* A loop goes on exactly while less than its time has gone by, also when the
   word it reads wraps: it neither ends early nor asks once too often.  And
   two times read one after the other are in order; only the end of the
   64 bits sets the clock back. *)
TimeIsKept ==
    [][/\ Poll => (loop' # NoLoop <=> loop.elapsed + Moved < loop.target)
       /\ osGetTime => \/ Number(<<r2', r3'>>) > counter
                       \/ counter >= Wide - Step]_timeVars

(* Whatever it waits for, a loop of the game ends: the counter moves because
   it asks. *)
WaitEnds == (loop # NoLoop) ~> (loop = NoLoop)

ProductAgrees(l, r) ==
    Number(ll_mul(l, r)) = (Number(l) * Number(r)) % Wide

QuotientAgrees(l, r) ==
    LET a == Signed(Number(l))
        b == Signed(Number(r))
        rest == a - (Signed(Number(ll_div(l, r))) * b) IN
    IF NoQuotient(l, r) THEN Number(ll_div(l, r)) = Wide \div 2
    ELSE /\ Abs(rest) < Abs(b)
         /\ rest # 0 => (rest < 0) = (a < 0)

UnsignedAgree(l, r) ==
    /\ Number(ull_div(l, r)) * Number(r) + Number(ull_rem(l, r)) = Number(l)
    /\ Number(ull_rem(l, r)) < Number(r)

ZeroByZero(l, r) ==
    \A pair \in {ll_div(l, r), ull_div(l, r), ull_rem(l, r)} : Number(pair) = 0

(* Whether an operand's registers were sign-extended by the game or are an
   earlier answer with empty upper halves, the helpers compute what 64-bit
   arithmetic defines: one product for both readings, the quotient that leaves
   a rest of the dividend's sign, and 0 by 0. *)
ArithmeticAgrees ==
    /\ TimeTypeOK
    /\ \A l \in Operands, r \in Operands :
        /\ ProductAgrees(l, r)
        /\ IF Number(r) = 0 THEN ZeroByZero(l, r)
           ELSE QuotientAgrees(l, r) /\ UnsignedAgree(l, r)
=============================================================================
