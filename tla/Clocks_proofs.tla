--------------------------- MODULE Clocks_proofs ---------------------------
(***************************************************************************)
(* Theorems of the two clocks of the host: the frame pump (FrameClock) and *)
(* the counter with its 64-bit arithmetic (HostTime).                      *)
(*                                                                         *)
(* The frame pump, for every limit, delay, image of the segment and number *)
(* of calls and restores: its four invariants are inductive together.      *)
(* OneFrameOld is what makes TwoFramesOld true one call later, and the     *)
(* limit has not been reached while the process runs.                      *)
(***************************************************************************)
EXTENDS FrameClock, HostTime, TLAPS

IInv == TypeOK /\ SettlesInTwo /\ FramesBracketed /\ StopsExactlyAtLimit

(* C's half of an integer is one. *)
LEMMA HalfType == \A n \in Int : Half(n) \in Int
  BY DEF Half

(* A count stays in its width. *)
LEMMA AdvanceType ==
    ASSUME NEW count \in Int, NEW delta \in Int
    PROVE  Advance(count, delta) \in 0..(Wrap - 1)
  <1>. DEFINE sum == count + delta * FrameTicks
  <1>1. sum \in Int
    BY FrameAssumption
  <1>. HIDE DEF sum
  <1>2. sum % Wrap \in 0..(Wrap - 1)
    BY <1>1, FrameAssumption
  <1>. QED
    BY <1>2 DEF Advance, sum

(* Whatever the game wrote, a call advances 1 to MaxDelay frames. *)
LEMMA BelievedRange ==
    ASSUME NEW delay \in Int
    PROVE  Believed(delay) \in 1..MaxDelay
  BY FrameAssumption DEF Believed

(* The limit is a number. *)
LEMMA LimitType == request \in Requests => Limit \in Nat
  BY FrameAssumption DEF Limit

(* What one call of the pump leaves in the words. *)
LEMMA PumpedWords ==
    ASSUME NEW w \in Words, NEW delta \in Int, NEW count \in Int
    PROVE  LET p == Pumped(w, delta, count)
               next == w[CurrentFrame] + delta
           IN  /\ p \in Words
               /\ p[Count0] = w[Count1] /\ p[Count1] = count
               /\ p[LastFrame] = w[CurrentFrame] /\ p[CurrentFrame] = next
               /\ p[SpeedFrames] = delta
               /\ p[HalfFrame] = Half(next)
               /\ p[OddFrame] = next % 2
               /\ p[HalfGained] = Half(next) - w[HalfFrame]
  <1>. DEFINE next == w[CurrentFrame] + delta
  <1>1. /\ w[CurrentFrame] \in Int /\ w[HalfFrame] \in Int
        /\ w[Count1] \in Int
    BY DEF Words, CurrentFrame, HalfFrame, Count1
  <1>2. next \in Int /\ Half(next) \in Int /\ next % 2 \in Int
        /\ Half(next) - w[HalfFrame] \in Int
    BY <1>1, HalfType
  <1>. HIDE DEF next
  <1>. QED
    BY <1>1, <1>2
       DEF Pumped, next, Words, Count0, Count1, LastFrame, CurrentFrame,
           SpeedFrames, PreviousHalf, HalfFrame, OddFrame, HalfGained,
           FrameDelay

(* One more call raises the bound on the frames by MaxDelay. *)
LEMMA OneMoreCall ==
    ASSUME NEW n \in Int
    PROVE  MaxDelay * n + MaxDelay = MaxDelay * (n + 1)
  BY FrameAssumption

-----------------------------------------------------------------------------
(* The invariant holds at the start. *)
LEMMA InitKeeps == Init => IInv
  <1>. SUFFICES ASSUME Init PROVE IInv
    OBVIOUS
  <1>1. TypeOK
    BY FrameAssumption DEF Init, TypeOK, Words
  <1>2. SettlesInTwo
    BY DEF Init, SettlesInTwo
  <1>3. FramesBracketed
    BY FrameAssumption DEF Init, FramesBracketed, CurrentFrame
  <1>4. StopsExactlyAtLimit
    BY <1>1, LimitType DEF Init, StopsExactlyAtLimit, TypeOK
  <1>. QED
    BY <1>1, <1>2, <1>3, <1>4 DEF IInv

(* A call of the pump keeps it. *)
LEMMA PumpKeeps ==
    ASSUME IInv, waitForNextFrame
    PROVE  IInv'
  <1>. DEFINE delta == Believed(words[FrameDelay])
              next == words[CurrentFrame] + delta
  <1>1. /\ words \in Words /\ words[FrameDelay] \in Int
        /\ words[CurrentFrame] \in Int
        /\ hostTicks \in Nat /\ since \in 0..hostTicks /\ base \in Int
        /\ hostCount \in Int
    BY FrameAssumption DEF IInv, TypeOK, Words, FrameDelay, CurrentFrame
  <1>2. delta \in 1..MaxDelay /\ MaxDelay \in Nat
    BY <1>1, BelievedRange, FrameAssumption
  <1>3. hostCount' = Advance(hostCount, delta)
        /\ hostCount' \in 0..(Wrap - 1) /\ hostCount' \in Int
    BY <1>1, <1>2, AdvanceType, FrameAssumption DEF waitForNextFrame
  <1>4. words' = Pumped(words, delta, hostCount')
    BY DEF waitForNextFrame
  <1>5. /\ words' \in Words
        /\ words'[Count0] = words[Count1] /\ words'[Count1] = hostCount'
        /\ words'[LastFrame] = words[CurrentFrame]
        /\ words'[CurrentFrame] = next
        /\ words'[SpeedFrames] = delta
        /\ words'[HalfFrame] = Half(next)
        /\ words'[OddFrame] = next % 2
        /\ words'[HalfGained] = Half(next) - words[HalfFrame]
    BY <1>1, <1>2, <1>3, <1>4, PumpedWords
  <1>6. /\ hostTicks' = hostTicks + 1 /\ hostTicks < MaxFrames
        /\ since' = since + 1 /\ base' = base
        /\ UNCHANGED <<request, image, restores>>
    BY DEF waitForNextFrame, env
  <1>. HIDE DEF delta
  <1>7. TypeOK'
    <2>1. exit' \in {0, 150}
      BY DEF waitForNextFrame
    <2>. QED
      BY <1>1, <1>3, <1>5, <1>6, <2>1, FrameAssumption DEF IInv, TypeOK
  <1>8. SettlesInTwo'
    <2>1. OneFrameOld'
      BY <1>1, <1>2, <1>5 DEF OneFrameOld
    <2>2. ASSUME since' >= 2 PROVE TwoFramesOld'
      <3>1. OneFrameOld
        BY <1>1, <1>6, <2>2 DEF IInv, SettlesInTwo
      <3>. QED
        BY <1>3, <1>5, <3>1 DEF OneFrameOld, TwoFramesOld
    <2>. QED
      BY <2>1, <2>2 DEF SettlesInTwo
  <1>9. FramesBracketed'
    <2>. DEFINE gone == words[CurrentFrame] - base
                most == MaxDelay * since
    <2>1. since <= gone /\ gone <= most
      BY DEF IInv, FramesBracketed
    <2>2. words'[CurrentFrame] - base' = gone + delta
      BY <1>1, <1>2, <1>5, <1>6
    <2>3. MaxDelay * since' = most + MaxDelay
      BY <1>1, <1>6, OneMoreCall
    <2>4. gone \in Int /\ most \in Int
      BY <1>1, <1>2
    <2>. HIDE DEF gone, most
    <2>5. /\ since' <= words'[CurrentFrame] - base'
          /\ words'[CurrentFrame] - base' <= MaxDelay * since'
      BY <1>1, <1>2, <1>6, <2>1, <2>2, <2>3, <2>4
    <2>. QED
      BY <2>5 DEF FramesBracketed
  <1>10. StopsExactlyAtLimit'
    <2>1. Limit \in Nat /\ Limit' = Limit
      BY <1>6, LimitType DEF IInv, TypeOK, Limit
    <2>2. Limit # 0 => hostTicks < Limit
      BY <1>1, <2>1
         DEF IInv, StopsExactlyAtLimit, waitForNextFrame, Running
    <2>3. exit' = IF Limit # 0 /\ hostTicks' >= Limit THEN 150 ELSE 0
      BY DEF waitForNextFrame, LimitHit
    <2>. HIDE DEF Limit
    <2>. QED
      BY <1>1, <1>6, <2>1, <2>2, <2>3 DEF StopsExactlyAtLimit
  <1>. QED
    BY <1>7, <1>8, <1>9, <1>10 DEF IInv

(* A restore, wherever it breaks off, keeps it. *)
LEMMA RestoreKeeps ==
    ASSUME IInv, NEW n \in 0..10, initTLBPrepareContext(n)
    PROVE  IInv'
  <1>1. /\ UNCHANGED <<request, image, hostTicks, hostCount, exit>>
        /\ restores < MaxRestores /\ restores' = restores + 1
        /\ words' = [k \in 1..10 |-> IF k <= n THEN image[k] ELSE words[k]]
    BY DEF initTLBPrepareContext, env
  <1>2. words \in Words /\ image \in Words
    BY FrameAssumption DEF IInv, TypeOK
  <1>3. words' \in Words
    BY <1>1, <1>2 DEF Words
  <1>4. StopsExactlyAtLimit'
    BY <1>1 DEF IInv, StopsExactlyAtLimit, Limit
  <1>5. CASE n = 0
    <2>1. words' = words
      BY <1>1, <1>2, <1>5 DEF Words
    <2>2. UNCHANGED <<since, base>>
      BY <1>5 DEF initTLBPrepareContext
    <2>3. TypeOK'
      BY <1>1, <2>1, <2>2, FrameAssumption DEF IInv, TypeOK
    <2>4. SettlesInTwo' /\ FramesBracketed'
      BY <1>1, <2>1, <2>2
         DEF IInv, SettlesInTwo, FramesBracketed, OneFrameOld, TwoFramesOld
    <2>. QED
      BY <1>4, <2>3, <2>4 DEF IInv
  <1>6. CASE n # 0
    <2>1. since' = 0 /\ base' = words'[CurrentFrame]
      BY <1>6 DEF initTLBPrepareContext
    <2>2. words'[CurrentFrame] \in Int
      BY <1>3 DEF Words, CurrentFrame
    <2>3. TypeOK'
      BY <1>1, <1>3, <2>1, <2>2, FrameAssumption DEF IInv, TypeOK
    <2>4. SettlesInTwo'
      BY <2>1 DEF SettlesInTwo
    <2>5. FramesBracketed'
      BY <2>1, <2>2, FrameAssumption DEF FramesBracketed
    <2>. QED
      BY <1>4, <2>3, <2>4, <2>5 DEF IInv
  <1>. QED
    BY <1>5, <1>6

(* So does the game when it asks for a longer frame. *)
LEMMA DelayKeeps ==
    ASSUME IInv, NEW delay \in Delays, SetFrameDelay(delay)
    PROVE  IInv'
  <1>1. /\ words' = [words EXCEPT ![FrameDelay] = delay]
        /\ UNCHANGED <<request, image, hostTicks, hostCount, exit, restores,
                       since, base>>
    BY DEF SetFrameDelay, env
  <1>2. words \in Words /\ delay \in Int
    BY FrameAssumption DEF IInv, TypeOK
  <1>3. words' \in Words /\ \A k \in 1..9 : words'[k] = words[k]
    BY <1>1, <1>2 DEF Words, FrameDelay
  <1>4. TypeOK'
    BY <1>1, <1>3 DEF IInv, TypeOK
  <1>5. SettlesInTwo'
    BY <1>1, <1>3
       DEF IInv, SettlesInTwo, OneFrameOld, TwoFramesOld, LastFrame,
           CurrentFrame, SpeedFrames, HalfFrame, OddFrame, HalfGained,
           Count0, Count1
  <1>6. FramesBracketed'
    BY <1>1, <1>3 DEF IInv, FramesBracketed, CurrentFrame
  <1>7. StopsExactlyAtLimit'
    BY <1>1 DEF IInv, StopsExactlyAtLimit, Limit
  <1>. QED
    BY <1>4, <1>5, <1>6, <1>7 DEF IInv

(* The invariant is inductive. *)
LEMMA StepKeeps == IInv /\ [Next]_vars => IInv'
  <1>. SUFFICES ASSUME IInv, [Next]_vars PROVE IInv'
    OBVIOUS
  <1>1. CASE UNCHANGED vars
    BY <1>1
       DEF IInv, vars, TypeOK, SettlesInTwo, OneFrameOld, TwoFramesOld,
           FramesBracketed, StopsExactlyAtLimit, Limit
  <1>. QED
    BY <1>1, PumpKeeps, RestoreKeeps, DelayKeeps DEF Next

-----------------------------------------------------------------------------
(* The frame words and the host's counters keep their types. *)
THEOREM TypeCorrect == Spec => []TypeOK
  BY InitKeeps, StepKeeps, PTL DEF Spec, IInv

(* Two calls after a restore, wherever it broke off, the guest's words agree
   with each other and with the host's count again. *)
THEOREM WordsSettle == Spec => []SettlesInTwo
  BY InitKeeps, StepKeeps, PTL DEF Spec, IInv

(* Whatever delays the game writes, the guest plays between one and MaxDelay
   frames in a call. *)
THEOREM FramesStayBracketed == Spec => []FramesBracketed
  BY InitKeeps, StepKeeps, PTL DEF Spec, IInv

(* The process stops at the call that reaches the limit and at no other. *)
THEOREM StopIsExact == Spec => []StopsExactlyAtLimit
  BY InitKeeps, StepKeeps, PTL DEF Spec, IInv
-----------------------------------------------------------------------------
(* The only multiple of a number between it and its negative is 0. *)
LEMMA SmallMultiple ==
    ASSUME NEW W \in Nat \ {0}, NEW m \in Int, W * m < W, -W < W * m
    PROVE  m = 0
  <1>1. ASSUME m >= 1 PROVE FALSE
    <2>1. m - 1 \in Nat
      BY <1>1
    <2>2. W * (m - 1) >= 0
      BY <2>1
    <2>3. W * (m - 1) = W * m - W
      OBVIOUS
    <2>. QED
      BY <2>2, <2>3
  <1>2. ASSUME m <= -1 PROVE FALSE
    <2>1. (-1) - m \in Nat
      BY <1>2
    <2>2. W * ((-1) - m) >= 0
      BY <2>1
    <2>3. W * ((-1) - m) = -W - W * m
      OBVIOUS
    <2>. QED
      BY <2>2, <2>3
  <1>. QED
    BY <1>1, <1>2

(* Division with remainder. *)
LEMMA Division ==
    ASSUME NEW W \in Nat \ {0}, NEW a \in Int
    PROVE  /\ a \div W \in Int /\ a % W \in 0..(W - 1)
           /\ a = W * (a \div W) + (a % W)
  OBVIOUS

(* Numbers a multiple of W apart have the same remainder. *)
LEMMA ModUnique ==
    ASSUME NEW W \in Nat \ {0}, NEW a \in Int, NEW b \in Int, NEW k \in Int,
           a - b = W * k
    PROVE  a % W = b % W
  <1>. DEFINE q == a \div W
              r == b \div W
              s == a % W
              t == b % W
  <1>1. /\ q \in Int /\ r \in Int /\ s \in 0..(W - 1) /\ t \in 0..(W - 1)
        /\ a = W * q + s /\ b = W * r + t
    BY Division
  <1>. HIDE DEF q, r, s, t
  <1>2. W * (k - q + r) = W * k - W * q + W * r
    BY <1>1
  <1>3. W * k \in Int /\ W * q \in Int /\ W * r \in Int
    BY <1>1
  <1>4. W * (k - q + r) = s - t
    BY <1>1, <1>2, <1>3
  <1>5. k - q + r \in Int
    BY <1>1
  <1>6. k - q + r = 0
    BY <1>1, <1>4, <1>5, SmallMultiple
  <1>7. W * (k - q + r) = 0
    BY <1>6
  <1>. QED
    BY <1>1, <1>4, <1>7 DEF s, t

(* How far a count is from n frames, modulo its width. *)
Distance(count, n) == (count - FrameTicks * n) % Wrap

(* A count that wraps keeps its distance from one that does not, when both
   move alike. *)
LEMMA SameDistance ==
    ASSUME NEW count \in Int, NEW n \in Int, NEW d \in Int
    PROVE  Distance(Advance(count, d), n + d) = Distance(count, n)
  <1>. DEFINE W == Wrap
              F == FrameTicks
              more == d * F
              played == F * n
              total == F * (n + d)
              sum == count + more
              q == sum \div W
              now == sum % W
              wrapped == W * q
  <1>0. W \in Nat \ {0} /\ F \in Int
    BY FrameAssumption
  <1>. HIDE DEF W, F
  <1>1. more \in Int /\ played \in Int /\ total = played + more
    BY <1>0
  <1>. HIDE DEF more, played, total
  <1>2. sum \in Int
    BY <1>1
  <1>. HIDE DEF sum
  <1>3. q \in Int /\ now \in Int /\ sum = W * q + now
    BY <1>0, <1>2, Division
  <1>. HIDE DEF q, now
  <1>4. wrapped \in Int /\ 0 - q \in Int /\ W * (0 - q) = 0 - wrapped
    BY <1>0, <1>3
  <1>5. sum = wrapped + now
    BY <1>3
  <1>. HIDE DEF wrapped
  <1>6. (now - total) - (count - played) = 0 - wrapped
    <2>1. total \in Int /\ now \in Int /\ wrapped \in Int
      BY <1>1, <1>3, <1>4
    <2>. QED
      BY <1>1, <1>5, <2>1 DEF sum
  <1>7. now - total \in Int /\ count - played \in Int
    BY <1>1, <1>3
  <1>8. (now - total) - (count - played) = W * (0 - q)
    BY <1>4, <1>6
  <1>9. (now - total) % W = (count - played) % W
    BY <1>0, <1>4, <1>7, <1>8, ModUnique
  <1>. QED
    BY <1>9 DEF Distance, Advance, now, total, sum, played, more, W, F

(* A call of the pump moves the host's count and the guest's frames alike. *)
LEMMA PumpKeepsDrift ==
    ASSUME TypeOK, waitForNextFrame
    PROVE  Drift' = Drift
  <1>. DEFINE delta == Believed(words[FrameDelay])
              n == words[CurrentFrame]
  <1>1. /\ n \in Int /\ words \in Words /\ hostCount \in Int
        /\ delta \in Int /\ Wrap \in Nat \ {0} /\ FrameTicks \in Int
    BY FrameAssumption DEF TypeOK, Words, FrameDelay, CurrentFrame, Believed
  <1>2. hostCount' = Advance(hostCount, delta)
    BY DEF waitForNextFrame
  <1>3. hostCount' \in Int
    BY <1>1, <1>2, AdvanceType
  <1>4. words'[CurrentFrame] = n + delta
    BY <1>1, <1>3, PumpedWords DEF waitForNextFrame
  <1>. HIDE DEF delta, n
  <1>5. Distance(hostCount', n + delta) = Distance(hostCount, n)
    BY <1>1, <1>2, SameDistance
  <1>. QED
    BY <1>4, <1>5 DEF Drift, Distance, n

(* The host's count and the guest's frames keep their distance, modulo the
   width of the count, through every step that is not a restore. *)
THEOREM DriftOnlyByRestore == Spec => NoDriftButByRestore
  <1>1. TypeOK /\ [Next]_vars => [since' # 0 => Drift' = Drift]_vars
    <2>. SUFFICES ASSUME TypeOK, Next, since' # 0
                  PROVE  Drift' = Drift
      OBVIOUS
    <2>1. ASSUME NEW n \in 0..10, initTLBPrepareContext(n)
          PROVE  Drift' = Drift
      <3>1. n = 0
        BY <2>1 DEF initTLBPrepareContext
      <3>2. words' = words /\ hostCount' = hostCount
        BY <2>1, <3>1 DEF initTLBPrepareContext, TypeOK, Words
      <3>. QED
        BY <3>2 DEF Drift
    <2>2. ASSUME NEW delay \in Delays, SetFrameDelay(delay)
          PROVE  Drift' = Drift
      <3>1. words'[CurrentFrame] = words[CurrentFrame]
        BY <2>2 DEF SetFrameDelay, TypeOK, Words, FrameDelay, CurrentFrame
      <3>. QED
        BY <2>2, <3>1 DEF SetFrameDelay, Drift
    <2>. QED
      BY <2>1, <2>2, PumpKeepsDrift DEF Next
  <1>2. Spec => []TypeOK
    BY TypeCorrect
  <1>. QED
    BY <1>1, <1>2, PTL DEF Spec, NoDriftButByRestore
-----------------------------------------------------------------------------
(***************************************************************************)
(* 64-bit numbers in pairs of words, for every width of a word.            *)
(***************************************************************************)

(* A number has one quotient and one remainder. *)
LEMMA DivisionUnique ==
    ASSUME NEW W \in Nat \ {0}, NEW a \in Int, NEW q \in Int,
           NEW s \in 0..(W - 1), a = W * q + s
    PROVE  a \div W = q /\ a % W = s
  <1>. DEFINE p == a \div W
              r == a % W
  <1>1. p \in Int /\ r \in 0..(W - 1) /\ a = W * p + r
    BY Division
  <1>. HIDE DEF p, r
  <1>2. W * (p - q) = W * p - W * q /\ W * p \in Int /\ W * q \in Int
    BY <1>1
  <1>3. W * (p - q) = s - r
    BY <1>1, <1>2
  <1>4. p - q = 0
    BY <1>1, <1>3, SmallMultiple
  <1>5. p = q
    BY <1>1, <1>4
  <1>. QED
    BY <1>1, <1>5 DEF p, r

(* Half of the numbers, those that are negative when read as signed. *)
Middle == Word * (Word \div 2)

LEMMA WideIs ==
    /\ Word \in Nat \ {0} /\ Word > 1 /\ Wide \in Nat \ {0} /\ Word < Wide
    /\ Middle \in Nat \ {0} /\ Wide = 2 * Middle /\ Wide \div 2 = Middle
  <1>. DEFINE h == Word \div 2
  <1>1. Word \in Nat /\ Word > 1 /\ h \in Nat \ {0} /\ Word = 2 * h
    BY WordAssumption
  <1>. HIDE DEF h
  <1>2. Word * h \in Nat /\ Word * (h - 1) \in Nat
    BY <1>1
  <1>3. Word * h = Word * (h - 1) + Word
    BY <1>1
  <1>4. Word * h >= Word
    BY <1>1, <1>2, <1>3
  <1>5. Word * Word = 2 * (Word * h)
    BY <1>1
  <1>6. Middle = Word * h
    BY DEF Middle, h
  <1>. QED
    BY <1>1, <1>2, <1>4, <1>5, <1>6 DEF Wide

(* A number apart and together again. *)
LEMMA RoundTrip ==
    ASSUME NEW v \in Gpr
    PROVE  /\ v \div Word \in 0..(Word - 1) /\ v % Word \in 0..(Word - 1)
           /\ Number(U64ToPair(v)) = v
           /\ PairToU64(v \div Word, v % Word) = v
  <1>. DEFINE q == v \div Word
              s == v % Word
  <1>1. Word \in Nat \ {0} /\ v \in Nat /\ v < Word * Word
    BY WideIs DEF Gpr, Wide
  <1>2. q \in Int /\ s \in 0..(Word - 1) /\ v = Word * q + s
    BY <1>1, Division
  <1>. HIDE DEF q, s
  <1>3. q < Word
    <2>1. SUFFICES ASSUME q >= Word PROVE FALSE
      BY <1>1, <1>2
    <2>2. q - Word \in Nat
      BY <1>1, <1>2, <2>1
    <2>3. Word * (q - Word) >= 0
      BY <1>1, <2>2
    <2>4. Word * (q - Word) = Word * q - Word * Word
      BY <1>1, <1>2
    <2>5. Word * q \in Int /\ Word * Word \in Int
      BY <1>1, <1>2
    <2>. QED
      BY <1>1, <1>2, <2>3, <2>4, <2>5
  <1>4. q >= 0
    <2>1. SUFFICES ASSUME q <= -1 PROVE FALSE
      BY <1>2
    <2>2. (-1) - q \in Nat
      BY <1>2, <2>1
    <2>3. Word * ((-1) - q) >= 0
      BY <1>1, <2>2
    <2>4. Word * ((-1) - q) = -Word - Word * q
      BY <1>1, <1>2
    <2>5. Word * q \in Int
      BY <1>1, <1>2
    <2>. QED
      BY <1>1, <1>2, <2>3, <2>4, <2>5
  <1>5. q % Word = q /\ s % Word = s
    BY <1>1, <1>2, <1>3, <1>4
  <1>6. PairToU64(q, s) = v
    BY <1>1, <1>2, <1>5 DEF PairToU64
  <1>7. U64ToPair(v) = <<q, s>>
    BY DEF U64ToPair, q, s
  <1>8. Number(U64ToPair(v)) = v
    BY <1>6, <1>7 DEF Number
  <1>9. q \in 0..(Word - 1)
    BY <1>1, <1>2, <1>3, <1>4
  <1>. QED
    BY <1>2, <1>6, <1>8, <1>9, Zenon DEF q, s

(* Whatever is in the upper halves of the registers, the number is wide. *)
LEMMA PairType ==
    ASSUME NEW hi \in Int, NEW lo \in Int
    PROVE  PairToU64(hi, lo) \in Gpr
  <1>. DEFINE x == hi % Word
              y == lo % Word
  <1>1. Word \in Nat \ {0} /\ x \in 0..(Word - 1) /\ y \in 0..(Word - 1)
    BY WideIs, Division
  <1>. HIDE DEF x, y
  <1>2. Word - 1 - x \in Nat
    BY <1>1
  <1>3. (Word - 1 - x) * Word >= 0
    BY <1>1, <1>2
  <1>4. (Word - 1 - x) * Word = Word * Word - Word - x * Word
    BY <1>1
  <1>5. x * Word \in Nat /\ Word * Word \in Nat
    BY <1>1
  <1>6. x * Word + y \in 0..(Word * Word - 1)
    BY <1>1, <1>3, <1>4, <1>5
  <1>. QED
    BY <1>6 DEF PairToU64, Gpr, Wide, x, y

(* Both readings of a number. *)
LEMMA SignedType ==
    ASSUME NEW v \in Gpr
    PROVE  /\ Signed(v) \in -Middle..(Middle - 1)
           /\ Signed(v) = v \/ Signed(v) = v - Wide
           /\ Signed(v) = 0 <=> v = 0
  BY WideIs DEF Signed, Gpr

LEMMA UnsignedType ==
    ASSUME NEW n \in Int
    PROVE  Unsigned(n) \in Gpr
  BY WideIs, Division DEF Unsigned, Gpr

LEMMA SignedAgain ==
    ASSUME NEW n \in -Middle..(Middle - 1)
    PROVE  Signed(Unsigned(n)) = n
  <1>1. CASE n >= 0
    <2>1. Unsigned(n) = n
      BY <1>1, WideIs DEF Unsigned
    <2>. QED
      BY <1>1, <2>1, WideIs DEF Signed
  <1>2. CASE n < 0
    <2>1. n \in Int /\ n + Wide \in 0..(Wide - 1) /\ n = Wide * (-1) + (n + Wide)
      BY <1>2, WideIs
    <2>2. Unsigned(n) = n + Wide
      BY <2>1, WideIs, DivisionUnique DEF Unsigned
    <2>. QED
      BY <1>2, <2>2, WideIs DEF Signed
  <1>. QED
    BY <1>1, <1>2, WideIs

(* One product for both readings. *)
LEMMA ProductOnce ==
    ASSUME NEW a \in Gpr, NEW b \in Gpr
    PROVE  Unsigned(Signed(a) * Signed(b)) = (a * b) % Wide
  <1>. DEFINE x == Signed(a)
              y == Signed(b)
  <1>1. Wide \in Nat \ {0} /\ a \in Int /\ b \in Int /\ x \in Int /\ y \in Int
    BY WideIs, SignedType DEF Gpr
  <1>2. PICK i \in Int : x = a + Wide * i
    <2>1. x = a + Wide * 0 \/ x = a + Wide * (-1)
      BY <1>1, SignedType
    <2>. QED
      BY <2>1
  <1>3. PICK j \in Int : y = b + Wide * j
    <2>1. y = b + Wide * 0 \/ y = b + Wide * (-1)
      BY <1>1, SignedType
    <2>. QED
      BY <2>1
  <1>. HIDE DEF x, y
  <1>. DEFINE k == i * b + j * a + Wide * i * j
  <1>4. k \in Int /\ x * y \in Int /\ a * b \in Int
    BY <1>1
  <1>5. x * y - a * b = Wide * k
    <2>. DEFINE u == Wide * i
                v == Wide * j
    <2>1. u \in Int /\ v \in Int
      BY <1>1
    <2>2. x * y = a * b + u * b + a * v + u * v
      <3>. HIDE DEF u, v
      <3>1. (a + u) * (b + v) = a * b + u * b + a * v + u * v
        BY <1>1, <2>1
      <3>. QED
        BY <1>2, <1>3, <3>1 DEF u, v
    <2>3. u * b = Wide * (i * b) /\ a * v = Wide * (j * a)
          /\ u * v = Wide * (Wide * i * j)
      BY <1>1
    <2>4. Wide * k = Wide * (i * b) + Wide * (j * a) + Wide * (Wide * i * j)
      BY <1>1
    <2>5. /\ Wide * (i * b) \in Int /\ Wide * (j * a) \in Int
          /\ Wide * (Wide * i * j) \in Int
      BY <1>1
    <2>. HIDE DEF u, v, k
    <2>. QED
      BY <1>4, <2>2, <2>3, <2>4, <2>5
  <1>. HIDE DEF k
  <1>6. (x * y) % Wide = (a * b) % Wide
    BY <1>1, <1>4, <1>5, ModUnique
  <1>. QED
    BY <1>6 DEF Unsigned, x, y

(* C's quotient leaves a rest of the dividend's sign that is smaller than
   the divisor; it has a 64-bit value but in one case. *)
LEMMA QuotientLaw ==
    ASSUME NEW a \in -Middle..(Middle - 1), NEW b \in -Middle..(Middle - 1),
           b # 0, ~(a = -Middle /\ b = -1)
    PROVE  LET q == Quotient(a, b)
               rest == a - q * b
           IN  /\ q \in -Middle..(Middle - 1)
               /\ Abs(rest) < Abs(b)
               /\ rest # 0 => (rest < 0) = (a < 0)
  <1>. DEFINE A == Abs(a)
              B == Abs(b)
              Q == A \div B
              R == A % B
              q == Quotient(a, b)
  <1>1. /\ a \in Int /\ b \in Int /\ Middle \in Nat \ {0}
        /\ A \in Nat /\ B \in Nat \ {0} /\ A <= Middle
        /\ A = IF a < 0 THEN -a ELSE a
        /\ B = IF b < 0 THEN -b ELSE b
    BY WideIs DEF Abs
  <1>2. q = IF (a < 0) = (b < 0) THEN Q ELSE -Q
    BY DEF Quotient
  <1>. HIDE DEF A, B, q
  <1>3. Q \in Int /\ R \in 0..(B - 1) /\ A = B * Q + R
    <2>1. PICK c \in Int, d \in Nat \ {0} : c = A /\ d = B
      BY <1>1
    <2>2. c \div d \in Int /\ c % d \in 0..(d - 1) /\ c = d * (c \div d) + (c % d)
      BY Division
    <2>. QED
      BY <2>1, <2>2
  <1>. HIDE DEF Q, R
  <1>4. Q >= 0
    <2>1. SUFFICES ASSUME Q <= -1 PROVE FALSE
      BY <1>3
    <2>2. (-1) - Q \in Nat
      BY <1>3, <2>1
    <2>3. B * ((-1) - Q) >= 0
      BY <1>1, <2>2
    <2>4. B * ((-1) - Q) = -B - B * Q /\ B * Q \in Int
      BY <1>1, <1>3
    <2>. QED
      BY <1>1, <1>3, <2>3, <2>4
  <1>5. B * Q = Q + (B - 1) * Q /\ (B - 1) * Q >= 0 /\ B * Q \in Int
    BY <1>1, <1>3, <1>4
  <1>6. Q <= A
    BY <1>1, <1>3, <1>4, <1>5
  <1>7. (a < 0) = (b < 0) => Q <= Middle - 1
    <2>1. SUFFICES ASSUME (a < 0) = (b < 0), Q >= Middle PROVE FALSE
      BY <1>1, <1>3
    <2>2. Q = Middle /\ A = Middle
      BY <1>1, <1>3, <1>6, <2>1
    <2>3. a = -Middle /\ b < 0
      BY <1>1, <2>1, <2>2
    <2>4. B >= 2
      BY <1>1, <2>3
    <2>5. (B - 2) * Q >= 0 /\ (B - 1) * Q = Q + (B - 2) * Q
      BY <1>1, <1>3, <1>4, <2>4
    <2>. QED
      BY <1>1, <1>3, <1>5, <2>2, <2>5
  <1>8. q \in -Middle..(Middle - 1)
    BY <1>1, <1>2, <1>3, <1>4, <1>6, <1>7
  <1>9. q * b = IF a < 0 THEN -(B * Q) ELSE B * Q
    BY <1>1, <1>2, <1>3
  <1>10. a - q * b = IF a < 0 THEN -R ELSE R
    BY <1>1, <1>3, <1>5, <1>9
  <1>11. Abs(a - q * b) = R
    BY <1>3, <1>10 DEF Abs
  <1>12. Abs(a - q * b) < B
    BY <1>1, <1>3, <1>11
  <1>13. a - q * b # 0 => (a - q * b < 0) = (a < 0)
    BY <1>1, <1>3, <1>10
  <1>. QED
    BY <1>8, <1>12, <1>13 DEF q, B
-----------------------------------------------------------------------------
(***************************************************************************)
(* The counter and the loops that wait for it.                             *)
(***************************************************************************)
Waits == [start : 0..(Word - 1), target : Targets, elapsed : Nat]

(* The word a loop reads is the one it began with plus what went by since,
   modulo the word, and less than its time went by unless it has not asked
   yet. *)
WaitSound ==
    loop # NoLoop =>
        /\ counter % Word = (loop.start + loop.elapsed) % Word
        /\ loop.elapsed = 0 \/ loop.elapsed < loop.target

TimeInv == TimeTypeOK /\ WaitSound

LEMMA StepIs ==
    /\ Step \in Nat \ {0} /\ Step < Word /\ Step < Wide
    /\ \A t \in Targets : t \in Nat /\ t + Step <= Word
    /\ NoLoop \notin Waits
  <1>1. Step \in 1..(Word - 1) /\ Targets \subseteq 0..(Word - Step)
    BY HostTimeAssumption
  <1>2. NoLoop \notin Waits
    BY HostTimeAssumption DEF Waits
  <1>. QED
    BY <1>1, <1>2, WideIs

(* A query moves the counter by a step, as a wide number and as a word. *)
LEMMA QueryMoves ==
    ASSUME NEW c \in Gpr
    PROVE  /\ Ticked(c) \in Gpr
           /\ (Ticked(c) - c) % Wide = Step
           /\ Ticked(c) % Word = (c + Step) % Word
           /\ Ticked(c) % Word \in 0..(Word - 1)
           /\ c < Wide - Step => Ticked(c) = c + Step
  <1>. DEFINE q == (c + Step) \div Wide
              n == Ticked(c)
  <1>1. /\ Wide \in Nat \ {0} /\ Word \in Nat \ {0} /\ Step \in Nat
        /\ Step < Wide /\ c \in Nat /\ c < Wide
    BY WideIs, StepIs DEF Gpr
  <1>2. q \in Int /\ n \in 0..(Wide - 1) /\ c + Step = Wide * q + n
    <2>1. c + Step \in Int
      BY <1>1
    <2>. QED
      BY <1>1, <2>1, Division DEF Ticked
  <1>3. n \in Gpr
    BY <1>2 DEF Gpr
  <1>4. c < Wide - Step => n = c + Step
    BY <1>1 DEF Ticked
  <1>. HIDE DEF q, n
  <1>5. (n - c) % Wide = Step
    <2>1. (n - c) - Step = Wide * (0 - q)
      BY <1>1, <1>2
    <2>2. n - c \in Int /\ Step \in Int /\ 0 - q \in Int
      BY <1>1, <1>2
    <2>3. (n - c) % Wide = Step % Wide
      BY <1>1, <2>1, <2>2, ModUnique
    <2>. QED
      BY <1>1, <2>3
  <1>6. n % Word = (c + Step) % Word
    <2>1. Wide * q = Word * (Word * q)
      BY <1>1, <1>2 DEF Wide
    <2>2. Word * (0 - Word * q) = 0 - Word * (Word * q)
      BY <1>1, <1>2
    <2>3. /\ n \in Int /\ c + Step \in Int /\ 0 - Word * q \in Int
          /\ Word * (Word * q) \in Int
      BY <1>1, <1>2
    <2>4. n - (c + Step) = Word * (0 - Word * q)
      BY <1>1, <1>2, <2>1, <2>2, <2>3
    <2>. QED
      BY <1>1, <2>3, <2>4, ModUnique
  <1>7. n % Word \in 0..(Word - 1)
    BY <1>1, <1>2, Division
  <1>. QED
    BY <1>3, <1>4, <1>5, <1>6, <1>7 DEF n

(* What is congruent stays so when both sides move alike. *)
LEMMA ShiftBoth ==
    ASSUME NEW W \in Nat \ {0}, NEW a \in Int, NEW b \in Int, NEW d \in Int,
           a % W = b % W
    PROVE  (a + d) % W = (b + d) % W
  <1>. DEFINE p == a \div W
              q == b \div W
              s == a % W
              t == b % W
  <1>1. /\ p \in Int /\ q \in Int /\ s \in Int /\ t \in Int
        /\ a = W * p + s /\ b = W * q + t /\ s = t
    BY Division
  <1>. HIDE DEF p, q, s, t
  <1>2. W * (p - q) = W * p - W * q /\ W * p \in Int /\ W * q \in Int
    BY <1>1
  <1>3. (a + d) - (b + d) = W * (p - q)
    BY <1>1, <1>2
  <1>4. a + d \in Int /\ b + d \in Int /\ p - q \in Int
    BY <1>1
  <1>. QED
    BY <1>3, <1>4, ModUnique

(* One turn of a loop: it ends exactly when its time has gone by. *)
LEMMA PollTells ==
    ASSUME TimeInv, Poll
    PROVE  /\ loop \in Waits /\ Moved = Step
           /\ counter' \in Gpr /\ r2' \in 0..(Word - 1)
           /\ counter' % Word = (loop.start + (loop.elapsed + Step)) % Word
           /\ Done(r2') <=> loop.elapsed + Step >= loop.target
  <1>. DEFINE s == loop.start
              e == loop.elapsed
              t == loop.target
  <1>1. /\ loop \in Waits /\ counter \in Gpr
        /\ counter % Word = (s + e) % Word /\ (e = 0 \/ e < t)
        /\ counter' = Ticked(counter) /\ r2' = counter' % Word
    BY DEF TimeInv, TimeTypeOK, WaitSound, Waits, Poll, osGetCount, CountOf
  <1>2. /\ s \in 0..(Word - 1) /\ e \in Nat /\ t \in Targets
    BY <1>1 DEF Waits
  <1>3. /\ Word \in Nat \ {0} /\ Step \in Nat /\ Step < Word
        /\ t \in Nat /\ t + Step <= Word
    BY <1>2, WideIs, StepIs
  <1>4. /\ counter' \in Gpr /\ Moved = Step
        /\ counter' % Word = (counter + Step) % Word
        /\ r2' \in 0..(Word - 1)
    BY <1>1, QueryMoves DEF Moved
  <1>5. counter \in Int
    BY <1>1 DEF Gpr
  <1>. HIDE DEF s, e, t
  <1>6. counter' % Word = (s + (e + Step)) % Word
    <2>1. s + e \in Int /\ Step \in Int
      BY <1>2, <1>3
    <2>2. (counter + Step) % Word = (s + e + Step) % Word
      BY <1>1, <1>3, <1>5, <2>1, ShiftBoth
    <2>3. s + e + Step = s + (e + Step)
      BY <1>2, <1>3
    <2>. QED
      BY <1>4, <2>2, <2>3
  <1>7. (r2' - s) % Word = e + Step
    <2>0. \A w \in 0..(Word - 1) : w % Word = w
      BY <1>3
    <2>1. r2' % Word = r2' /\ r2' \in Int /\ s + (e + Step) \in Int
          /\ 0 - s \in Int
      <3>1. r2' % Word = r2'
        BY <1>4, <2>0
      <3>2. r2' \in Int
        BY <1>3, <1>4
      <3>3. s + (e + Step) \in Int /\ 0 - s \in Int
        BY <1>2, <1>3
      <3>. QED
        BY <3>1, <3>2, <3>3
    <2>2. r2' % Word = (s + (e + Step)) % Word
      BY <1>1, <1>6, <2>1
    <2>3. (r2' + (0 - s)) % Word = (s + (e + Step) + (0 - s)) % Word
      BY <1>3, <2>1, <2>2, ShiftBoth
    <2>4. r2' + (0 - s) = r2' - s /\ s + (e + Step) + (0 - s) = e + Step
      BY <1>2, <1>3, <2>1
    <2>5. e + Step \in 0..(Word - 1)
      BY <1>1, <1>2, <1>3
    <2>6. (e + Step) % Word = e + Step
      BY <1>3, <2>5
    <2>. QED
      BY <2>3, <2>4, <2>6
  <1>8. Done(r2') <=> e + Step >= t
    BY <1>7 DEF Done, s, t
  <1>. QED
    BY <1>1, <1>4, <1>6, <1>8 DEF s, e, t

-----------------------------------------------------------------------------
(* What the helpers take and answer. *)
LEMMA OperandType ==
    ASSUME TimeTypeOK, NEW p \in Operands
    PROVE  Number(p) \in Gpr
  <1>1. \A w \in Int : SignExtended(w) \in Int
    BY WideIs DEF SignExtended
  <1>2. p[1] \in Int /\ p[2] \in Int
    <2>1. CASE p = <<r2, r3>>
      BY <2>1, WideIs DEF TimeTypeOK
    <2>2. ASSUME NEW v \in Values,
                 p = <<SignExtended(v \div Word), SignExtended(v % Word)>>
          PROVE  p[1] \in Int /\ p[2] \in Int
      <3>1. v \in Gpr
        BY HostTimeAssumption DEF Gpr
      <3>2. v \div Word \in Int /\ v % Word \in Int
        BY <3>1, RoundTrip
      <3>. QED
        BY <1>1, <2>2, <3>2
    <2>. QED
      BY <2>1, <2>2 DEF Operands
  <1>. QED
    BY <1>2, PairType DEF Number

LEMMA UnsignedLaw ==
    ASSUME NEW a \in Gpr, NEW b \in Gpr, b # 0
    PROVE  /\ a \div b \in Gpr /\ a % b \in Gpr
           /\ (a \div b) * b + (a % b) = a /\ a % b < b
  <1>. DEFINE q == a \div b
              s == a % b
  <1>1. /\ a \in Nat /\ b \in Nat \ {0} /\ a < Wide /\ b < Wide
        /\ Wide \in Nat
    BY WideIs DEF Gpr
  <1>2. q \in Int /\ s \in 0..(b - 1) /\ a = b * q + s
    BY <1>1, Division
  <1>. HIDE DEF q, s
  <1>3. q >= 0
    <2>1. SUFFICES ASSUME q <= -1 PROVE FALSE
      BY <1>2
    <2>2. (-1) - q \in Nat
      BY <1>2, <2>1
    <2>3. b * ((-1) - q) >= 0
      BY <1>1, <2>2
    <2>4. b * ((-1) - q) = -b - b * q /\ b * q \in Int
      BY <1>1, <1>2
    <2>. QED
      BY <1>1, <1>2, <2>3, <2>4
  <1>4. b * q = q + (b - 1) * q /\ (b - 1) * q >= 0 /\ b * q = q * b
    BY <1>1, <1>2, <1>3
  <1>5. q \in Gpr
    BY <1>1, <1>2, <1>3, <1>4 DEF Gpr
  <1>6. s \in Gpr
    BY <1>1, <1>2 DEF Gpr
  <1>7. q * b + s = a /\ s < b
    BY <1>1, <1>2, <1>4
  <1>. QED
    BY <1>5, <1>6, <1>7 DEF q, s

(* The four results, as numbers. *)
LEMMA Results ==
    ASSUME TimeTypeOK, NEW l \in Operands, NEW r \in Operands
    PROVE  \E m \in Gpr, d \in Gpr, u \in Gpr, x \in Gpr :
              /\ ll_mul(l, r) = U64ToPair(m)
              /\ ll_div(l, r) = U64ToPair(d)
              /\ ull_div(l, r) = U64ToPair(u)
              /\ ull_rem(l, r) = U64ToPair(x)
  <1>. DEFINE a == Number(l)
              b == Number(r)
  <1>1. a \in Gpr /\ b \in Gpr /\ 0 \in Gpr
    BY OperandType, WideIs DEF Gpr
  <1>. DEFINE m == Unsigned(Signed(a) * Signed(b))
              d == IF b = 0 THEN 0 ELSE Unsigned(Quotient(Signed(a), Signed(b)))
              u == IF b = 0 THEN 0 ELSE a \div b
              x == IF b = 0 THEN 0 ELSE a % b
  <1>. HIDE DEF a, b
  <1>2. Signed(a) \in Int /\ Signed(b) \in Int
    BY <1>1, SignedType, WideIs
  <1>3. m \in Gpr
    <2>1. Signed(a) * Signed(b) \in Int
      BY <1>2
    <2>. QED
      BY <2>1, UnsignedType
  <1>4. d \in Gpr
    <2>1. CASE b = 0
      BY <1>1, <2>1
    <2>2. CASE b # 0
      <3>1. Abs(Signed(b)) \in Nat \ {0} /\ Abs(Signed(a)) \in Nat
        BY <1>1, <1>2, <2>2, SignedType DEF Abs
      <3>2. Abs(Signed(a)) \div Abs(Signed(b)) \in Int
        BY <3>1
      <3>3. Quotient(Signed(a), Signed(b)) \in Int
        BY <3>2 DEF Quotient
      <3>. QED
        BY <2>2, <3>3, UnsignedType
    <2>. QED
      BY <2>1, <2>2
  <1>5. u \in Gpr /\ x \in Gpr
    BY <1>1, UnsignedLaw
  <1>6. /\ ll_mul(l, r) = U64ToPair(m) /\ ll_div(l, r) = U64ToPair(d)
        /\ ull_div(l, r) = U64ToPair(u) /\ ull_rem(l, r) = U64ToPair(x)
    BY DEF ll_mul, ll_div, ull_div, ull_rem, a, b
  <1>. HIDE DEF m, d, u, x
  <1>. QED
    BY <1>3, <1>4, <1>5, <1>6

LEMMA AnswerType ==
    ASSUME TimeTypeOK, NEW l \in Operands, NEW r \in Operands,
           NEW answer \in {ll_mul(l, r), ll_div(l, r), ull_div(l, r),
                           ull_rem(l, r)}
    PROVE  answer[1] \in 0..(Word - 1) /\ answer[2] \in 0..(Word - 1)
  <1>1. PICK v \in Gpr : answer = U64ToPair(v)
    BY Results
  <1>. QED
    BY <1>1, RoundTrip DEF U64ToPair

-----------------------------------------------------------------------------
LEMMA TimeInitKeeps == TimeInit => TimeInv
  <1>1. 0 \in Gpr /\ 0 \in 0..(Word - 1)
    BY WideIs DEF Gpr
  <1>. QED
    BY <1>1 DEF TimeInit, TimeInv, TimeTypeOK, WaitSound

LEMMA TimeStep == ASSUME TimeInv, [TimeNext]_timeVars PROVE TimeInv'
  <1>0. TimeTypeOK /\ counter \in Gpr
    BY DEF TimeInv, TimeTypeOK
  <1>1. CASE osGetTime
    <2>1. counter' \in Gpr
      BY <1>0, <1>1, QueryMoves DEF osGetTime
    <2>2. r2' \in 0..(Word - 1) /\ r3' \in 0..(Word - 1)
      BY <1>1, <2>1, RoundTrip DEF osGetTime, U64ToPair
    <2>3. loop' = NoLoop /\ UNCHANGED <<loop, trapped>>
      BY <1>1 DEF osGetTime, Free
    <2>. QED
      BY <1>0, <2>1, <2>2, <2>3 DEF TimeInv, TimeTypeOK, WaitSound
  <1>2. CASE Poll
    <2>1. /\ loop \in Waits /\ Moved = Step
          /\ counter' \in Gpr /\ r2' \in 0..(Word - 1)
          /\ counter' % Word = (loop.start + (loop.elapsed + Step)) % Word
          /\ Done(r2') <=> loop.elapsed + Step >= loop.target
      BY <1>2, PollTells
    <2>2. UNCHANGED <<r3, trapped>> /\ loop # NoLoop
      BY <1>2 DEF Poll, osGetCount
    <2>3. ~trapped /\ trapped \in BOOLEAN
      BY <1>0, <2>2 DEF TimeTypeOK
    <2>4. CASE Done(r2')
      <3>1. loop' = NoLoop
        BY <1>2, <2>4 DEF Poll
      <3>. QED
        BY <1>0, <2>1, <2>2, <2>3, <3>1 DEF TimeInv, TimeTypeOK, WaitSound
    <2>5. CASE ~Done(r2')
      <3>1. loop' = [loop EXCEPT !.elapsed = @ + Step]
        BY <1>2, <2>1, <2>5 DEF Poll
      <3>2. loop.elapsed \in Nat /\ loop.target \in Nat /\ Step \in Nat
        BY <2>1, StepIs DEF Waits
      <3>3. /\ loop' \in Waits /\ loop'.start = loop.start
            /\ loop'.elapsed = loop.elapsed + Step
            /\ loop'.target = loop.target
        BY <2>1, <3>1, <3>2 DEF Waits
      <3>4. WaitSound'
        BY <2>1, <2>5, <3>2, <3>3 DEF WaitSound
      <3>5. TimeTypeOK'
        BY <1>0, <2>1, <2>2, <2>3, <3>3 DEF TimeTypeOK, Waits
      <3>. QED
        BY <3>4, <3>5 DEF TimeInv
    <2>. QED
      BY <2>4, <2>5
  <1>3. ASSUME NEW t \in Targets, BeginWait(t) PROVE TimeInv'
    <2>1. /\ counter' \in Gpr /\ r2' = counter' % Word
          /\ r2' \in 0..(Word - 1) /\ UNCHANGED <<r3, trapped>> /\ ~trapped
      BY <1>0, <1>3, QueryMoves DEF BeginWait, osGetCount, CountOf, Free
    <2>2. loop' = [start |-> r2', target |-> t, elapsed |-> 0]
      BY <1>3 DEF BeginWait
    <2>3. /\ loop' \in Waits /\ loop'.start = r2' /\ loop'.elapsed = 0
      BY <2>1, <2>2 DEF Waits
    <2>4. (r2' + 0) % Word = r2'
      BY <2>1, WideIs
    <2>5. WaitSound'
      BY <2>1, <2>3, <2>4 DEF WaitSound
    <2>6. TimeTypeOK'
      BY <1>0, <2>1, <2>3 DEF TimeTypeOK, Waits
    <2>. QED
      BY <2>5, <2>6 DEF TimeInv
  <1>4. ASSUME NEW l \in Operands, NEW r \in Operands, Compute(l, r)
        PROVE  TimeInv'
    <2>1. r2' \in 0..(Word - 1) /\ r3' \in 0..(Word - 1)
      BY <1>0, <1>4, AnswerType DEF Compute
    <2>2. UNCHANGED <<counter, loop, trapped>>
      BY <1>4 DEF Compute
    <2>. QED
      BY <2>1, <2>2 DEF TimeInv, TimeTypeOK, WaitSound
  <1>5. ASSUME NEW l \in Operands, NEW r \in Operands, Trap(l, r)
        PROVE  TimeInv'
    BY <1>5 DEF Trap, Free, TimeInv, TimeTypeOK, WaitSound
  <1>6. CASE UNCHANGED timeVars
    BY <1>6 DEF timeVars, TimeInv, TimeTypeOK, WaitSound
  <1>. QED
    BY <1>1, <1>2, <1>3, <1>4, <1>5, <1>6 DEF TimeNext

LEMMA TimeInvariant == TimeSpec => []TimeInv
  <1>. QED
    BY TimeInitKeeps, TimeStep, PTL DEF TimeSpec

(* A loop of the game asks exactly as often as its time needs, also across
   the wrap of the word it reads, and two times in a row are in order until
   the 64 bits end. *)
THEOREM TimeStaysKept == TimeSpec => TimeIsKept
  <1>. DEFINE Told == /\ Poll => (loop' # NoLoop <=>
                                    loop.elapsed + Moved < loop.target)
                      /\ osGetTime => \/ Number(<<r2', r3'>>) > counter
                                      \/ counter >= Wide - Step
  <1>1. ASSUME TimeInv PROVE Told
    <2>1. ASSUME Poll
          PROVE  loop' # NoLoop <=> loop.elapsed + Moved < loop.target
      <3>1. /\ loop \in Waits /\ Moved = Step
            /\ Done(r2') <=> loop.elapsed + Step >= loop.target
        BY <1>1, <2>1, PollTells
      <3>2. loop.elapsed \in Nat /\ loop.target \in Nat /\ Step \in Nat
        BY <3>1, StepIs DEF Waits
      <3>3. Done(r2') <=> loop' = NoLoop
        <4>1. [loop EXCEPT !.elapsed = @ + Moved] \in Waits
          BY <3>1, <3>2 DEF Waits
        <4>. QED
          BY <2>1, <4>1, StepIs DEF Poll
      <3>. QED
        BY <3>1, <3>2, <3>3
    <2>2. ASSUME osGetTime
          PROVE  Number(<<r2', r3'>>) > counter \/ counter >= Wide - Step
      <3>1. counter \in Gpr /\ counter' = Ticked(counter)
        BY <1>1, <2>2 DEF TimeInv, TimeTypeOK, osGetTime
      <3>2. counter' \in Gpr
            /\ (counter < Wide - Step => counter' = counter + Step)
        BY <3>1, QueryMoves
      <3>3. <<r2', r3'>> = U64ToPair(counter')
        BY <2>2 DEF osGetTime, U64ToPair
      <3>4. Number(<<r2', r3'>>) = counter'
        BY <3>2, <3>3, RoundTrip
      <3>. QED
        BY <3>1, <3>2, <3>4, StepIs, WideIs DEF Gpr
    <2>. QED
      BY <2>1, <2>2
  <1>2. ASSUME TimeInv PROVE [Told]_timeVars
    BY <1>1, <1>2
  <1>. HIDE DEF Told
  <1>3. TimeSpec => [][Told]_timeVars
    BY <1>2, TimeInvariant, PTL
  <1>. QED
    BY <1>3 DEF TimeIsKept, Told

(* The helpers compute what 64-bit arithmetic defines, on whatever the game
   hands them. *)
THEOREM ArithmeticCorrect == TimeSpec => []ArithmeticAgrees
  <1>1. ASSUME TimeTypeOK, NEW l \in Operands, NEW r \in Operands
        PROVE  /\ ProductAgrees(l, r)
               /\ IF Number(r) = 0 THEN ZeroByZero(l, r)
                  ELSE QuotientAgrees(l, r) /\ UnsignedAgree(l, r)
    <2>. DEFINE a == Number(l)
                b == Number(r)
                x == Signed(a)
                y == Signed(b)
    <2>1. a \in Gpr /\ b \in Gpr
      BY <1>1, OperandType
    <2>. HIDE DEF a, b
    <2>2. x \in -Middle..(Middle - 1) /\ y \in -Middle..(Middle - 1)
          /\ (y = 0 <=> b = 0)
      BY <2>1, SignedType
    <2>. HIDE DEF x, y
    <2>3. ProductAgrees(l, r)
      <3>1. Unsigned(x * y) \in Gpr
        BY <2>2, WideIs, UnsignedType
      <3>2. Unsigned(x * y) = (a * b) % Wide
        BY <2>1, ProductOnce DEF x, y
      <3>3. ll_mul(l, r) = U64ToPair(Unsigned(x * y))
        BY DEF ll_mul, x, y, a, b
      <3>4. Number(ll_mul(l, r)) = Unsigned(x * y)
        BY <3>1, <3>3, RoundTrip
      <3>. QED
        BY <3>2, <3>4 DEF ProductAgrees, a, b
    <2>4. ASSUME b = 0 PROVE ZeroByZero(l, r)
      <3>1. 0 \in Gpr
        BY WideIs DEF Gpr
      <3>2. /\ ll_div(l, r) = U64ToPair(0) /\ ull_div(l, r) = U64ToPair(0)
            /\ ull_rem(l, r) = U64ToPair(0)
        BY <2>4 DEF ll_div, ull_div, ull_rem, b
      <3>. QED
        BY <3>1, <3>2, RoundTrip DEF ZeroByZero
    <2>5. ASSUME b # 0 PROVE QuotientAgrees(l, r)
      <3>. DEFINE q == Quotient(x, y)
      <3>1. ll_div(l, r) = U64ToPair(Unsigned(q))
        BY <2>5 DEF ll_div, a, b, x, y
      <3>2. NoQuotient(l, r) <=> x = -Middle /\ y = -1
        BY WideIs DEF NoQuotient, a, b, x, y
      <3>3. CASE NoQuotient(l, r)
        <4>1. x = -Middle /\ y = -1
          BY <3>2, <3>3
        <4>2. Middle \div 1 = Middle /\ Abs(x) = Middle /\ Abs(y) = 1
          <5>1. Middle \in Nat \ {0}
            BY WideIs
          <5>2. Middle = 1 * Middle + 0 /\ 0 \in 0..(1 - 1)
            BY <5>1
          <5>3. Middle \div 1 = Middle
            BY <5>1, <5>2, DivisionUnique
          <5>4. Abs(-Middle) = Middle
            BY <5>1 DEF Abs
          <5>5. Abs(-1) = 1
            <6>1. \A n \in Int : n + 1 = 0 => Abs(n) = 1
              BY DEF Abs
            <6>2. -1 \in Int /\ (-1) + 1 = 0
              OBVIOUS
            <6>. QED
              BY <6>1, <6>2
          <5>. QED
            BY <4>1, <5>3, <5>4, <5>5
        <4>3. q = Middle
          BY <4>1, <4>2, WideIs DEF Quotient
        <4>4. Unsigned(q) = Middle /\ Middle \in Gpr
          BY <4>3, WideIs DEF Unsigned, Gpr
        <4>5. Number(ll_div(l, r)) = Middle
          BY <3>1, <4>4, RoundTrip
        <4>. QED
          BY <3>3, <4>5, WideIs DEF QuotientAgrees
      <3>4. CASE ~NoQuotient(l, r)
        <4>1. /\ q \in -Middle..(Middle - 1)
              /\ Abs(x - q * y) < Abs(y)
              /\ x - q * y # 0 => (x - q * y < 0) = (x < 0)
          BY <2>2, <2>5, <3>2, <3>4, QuotientLaw
        <4>. HIDE DEF q
        <4>2. Unsigned(q) \in Gpr
          BY <4>1, WideIs, UnsignedType
        <4>3. Number(ll_div(l, r)) = Unsigned(q)
          BY <3>1, <4>2, RoundTrip
        <4>4. Signed(Number(ll_div(l, r))) = q
          BY <4>1, <4>3, SignedAgain
        <4>. QED
          BY <3>4, <4>1, <4>4 DEF QuotientAgrees, a, b, x, y
      <3>. QED
        BY <3>3, <3>4
    <2>6. ASSUME b # 0 PROVE UnsignedAgree(l, r)
      <3>1. /\ a \div b \in Gpr /\ a % b \in Gpr
            /\ (a \div b) * b + (a % b) = a /\ a % b < b
        BY <2>1, <2>6, UnsignedLaw
      <3>2. /\ ull_div(l, r) = U64ToPair(a \div b)
            /\ ull_rem(l, r) = U64ToPair(a % b)
        BY <2>6 DEF ull_div, ull_rem, a, b
      <3>3. Number(ull_div(l, r)) = a \div b /\ Number(ull_rem(l, r)) = a % b
        BY <3>1, <3>2, RoundTrip
      <3>. QED
        BY <3>1, <3>3 DEF UnsignedAgree, a, b
    <2>. QED
      BY <2>3, <2>4, <2>5, <2>6 DEF b
  <1>2. TimeTypeOK => ArithmeticAgrees
    BY <1>1 DEF ArithmeticAgrees
  <1>3. TimeInv => TimeTypeOK
    BY DEF TimeInv
  <1>. QED
    BY <1>2, <1>3, TimeInvariant, PTL
=============================================================================
