----------------------- MODULE DisplayListScan_proofs -----------------------
(***************************************************************************)
(* The walk keeps its limits and its stack, walks only what it chose and   *)
(* all that it chose, reports it in counters that add up, and ends, for    *)
(* every window, every root, every setting and all thresholds.             *)
(***************************************************************************)
EXTENDS DisplayListScan, SumTheorems, SequenceTheorems, FiniteSetTheorems, TLAPS

-----------------------------------------------------------------------------
(* The cells a branch to which is scheduled: a list seems to begin there, or
   the settings ask for the rest, too. *)
Wanted == {c \in DOMAIN mem : Plausible(c) \/ env.payload}

Scanned == result["commands_scanned"]

Target == [first : DOMAIN mem, end : {0}, segments : [Segment -> Nat]]

CallType == [first : Nat, end : Nat, segments : [Segment -> Nat]]

(* The frames: every list within its own limit, none walked inside itself,
   and what they scheduled was wanted. *)
FramesDistinct ==
    \A i, j \in 1..Len(stack) : i # j => stack[i].first # stack[j].first

KeptBy(f, limit, scanned, wanted) ==
    /\ f.commands <= limit
    /\ f.commands <= scanned
    /\ \A k \in 1..Len(f.targets) : f.targets[k].first \in wanted

FramesKept ==
    \A k \in 1..Len(stack) : KeptBy(stack[k], env.list, Scanned, Wanted)

Chosen ==
    /\ \A k \in 2..Len(stack) : stack[k].first \in Wanted
    /\ call # NoCall /\ stack # <<>> => call.first \in Wanted

(* The limits on commands, as they are counted and as they are reported. *)
LimitsTrue ==
    /\ Scanned <= env.commands
    /\ "command" \in hit => Scanned = env.commands
    /\ "list" \in hit => Scanned >= env.list

(* All of it together is inductive. *)
ScanInv ==
    /\ TypeOK
    /\ Len(stack) <= env.depth + 1
    /\ FramesDistinct
    /\ FramesKept
    /\ Chosen
    /\ LimitsTrue

(* What TypeOK says, in the words of the proofs. *)
LEMMA Types ==
    ASSUME TypeOK
    PROVE  /\ mem \in Seq(Command) /\ DOMAIN mem \subseteq Nat
           /\ env.commands \in Nat /\ env.list \in Nat /\ env.depth \in Nat
           /\ env.payload \in BOOLEAN
           /\ call # NoCall => call \in CallType
           /\ stack \in Seq(Frame) /\ Len(stack) \in Nat
           /\ stack # <<>> => Top \in Frame /\ Len(stack) \in 1..Len(stack)
           /\ result \in [Counter -> Nat] /\ Scanned \in Nat
  <1>1. mem \in Seq(Command) /\ env \in Settings /\ stack \in Seq(Frame)
        /\ result \in [Counter -> Nat]
    BY DEF TypeOK
  <1>2. DOMAIN mem = 1..Len(mem) /\ Len(mem) \in Nat
    BY <1>1, LenProperties
  <1>3. Len(stack) \in Nat /\ (stack # <<>> => Len(stack) \in 1..Len(stack))
    BY <1>1, LenProperties, EmptySeq
  <1>4. stack # <<>> => Top \in Frame
    BY <1>1, <1>3, ElementOfSeq DEF Top
  <1>5. Scanned \in Nat
    BY <1>1 DEF Scanned, Counter
  <1>. QED
    BY <1>1, <1>2, <1>3, <1>4, <1>5 DEF TypeOK, Settings, CallType

(* Plus counts each name once. *)
LEMMA PlusCounts ==
    ASSUME NEW counts \in [Counter -> Nat], NEW names
    PROVE  /\ Plus(counts, names) \in [Counter -> Nat]
           /\ "commands_scanned" \in names =>
                 Plus(counts, names)["commands_scanned"] =
                     counts["commands_scanned"] + 1
           /\ "commands_scanned" \notin names =>
                 Plus(counts, names)["commands_scanned"] =
                     counts["commands_scanned"]
  <1>1. "commands_scanned" \in Counter
    BY DEF Counter
  <1>. QED
    BY <1>1 DEF Plus

(* Memory and settings do not change, so neither does the judgement nor what
   a frame may be. *)
LEMMA WantedStays ==
    ASSUME UNCHANGED <<mem, env>>
    PROVE  Wanted' = Wanted /\ Frame' = Frame /\ Target' = Target
  <1>1. mem' = mem /\ env' = env
    OBVIOUS
  <1>. QED
    BY <1>1 DEF Wanted, Plausible, ProbeReads, Known, Translates, Frame, Target

(* A step that leaves the stack: only the counters, the call and the limits
   move. *)
LEMMA SameStack ==
    ASSUME ScanInv, UNCHANGED <<mem, env, stack>>, call' = NoCall,
           result' \in [Counter -> Nat], Scanned' = Scanned,
           hit' \in {hit, hit \cup {"depth"}}
    PROVE  ScanInv'
  <1>1. TypeOK'
    BY DEF ScanInv, TypeOK, Frame
  <1>2. FramesDistinct' /\ Len(stack') <= env'.depth + 1
    BY DEF ScanInv, FramesDistinct
  <1>3. FramesKept'
    BY WantedStays DEF ScanInv, FramesKept
  <1>4. Chosen'
    BY WantedStays DEF ScanInv, Chosen
  <1>5. LimitsTrue'
    BY DEF ScanInv, LimitsTrue
  <1>. QED
    BY <1>1, <1>2, <1>3, <1>4, <1>5 DEF ScanInv

(* A step of the list on top: it goes on as the frame f, of the same list. *)
LEMMA SameLists ==
    ASSUME ScanInv, UNCHANGED <<mem, env>>, stack # <<>>, NEW f, f \in Frame,
           stack' = [stack EXCEPT ![Len(stack)] = f], f.first = Top.first,
           Scanned <= Scanned', Scanned' \in Nat,
           KeptBy(f, env.list, Scanned', Wanted)
    PROVE  /\ stack' \in Seq(Frame) /\ Len(stack') = Len(stack)
           /\ stack' # <<>>
           /\ FramesDistinct' /\ FramesKept'
           /\ \A k \in 2..Len(stack') : stack'[k].first \in Wanted'
  <1>. DEFINE n == Len(stack)
  <1>1. stack \in Seq(Frame) /\ n \in 1..n /\ n \in Nat /\ Scanned \in Nat
    BY Types DEF ScanInv
  <1>2. /\ stack' \in Seq(Frame) /\ Len(stack') = n
        /\ \A k \in 1..n : stack'[k] = IF k = n THEN f ELSE stack[k]
    BY <1>1, ExceptSeq
  <1>3. \A k \in 1..n : stack'[k].first = stack[k].first
    BY <1>2 DEF Top
  <1>4. stack' # <<>>
    BY <1>1, <1>2, EmptySeq
  <1>5. FramesDistinct'
    <2>1. \A i, j \in 1..n : i # j => stack[i].first # stack[j].first
      BY DEF ScanInv, FramesDistinct
    <2>2. ASSUME NEW i \in 1..n, NEW j \in 1..n, i # j
          PROVE  stack'[i].first # stack'[j].first
      <3>1. stack[i].first # stack[j].first
        BY <2>1, <2>2
      <3>2. /\ stack'[i].first = stack[i].first
            /\ stack'[j].first = stack[j].first
        BY <1>3
      <3>. QED
        BY <3>1, <3>2
    <2>3. 1..Len(stack') = 1..n
      BY <1>2
    <2>. QED
      BY <2>2, <2>3 DEF FramesDistinct
  <1>6. FramesKept'
    <2>. SUFFICES ASSUME NEW k \in 1..n
                  PROVE  KeptBy(stack'[k], env.list, Scanned', Wanted)
      BY <1>2, WantedStays DEF FramesKept
    <2>1. CASE k = n
      BY <1>2, <2>1
    <2>2. CASE k # n
      <3>1. stack'[k] = stack[k] /\ stack[k] \in Frame
        BY <1>1, <1>2, <2>2, ElementOfSeq
      <3>2. KeptBy(stack[k], env.list, Scanned, Wanted)
        BY DEF ScanInv, FramesKept
      <3>3. stack[k].commands \in Nat
        BY <3>1 DEF Frame
      <3>. QED
        BY <1>1, <3>1, <3>2, <3>3 DEF KeptBy
    <2>. QED
      BY <2>1, <2>2
  <1>7. \A k \in 2..n : stack'[k].first \in Wanted'
    <2>1. \A k \in 2..n : k \in 1..n /\ stack[k].first \in Wanted
      BY <1>1 DEF ScanInv, Chosen
    <2>. QED
      BY <1>3, <2>1, WantedStays
  <1>. QED
    BY <1>2, <1>4, <1>5, <1>6, <1>7

-----------------------------------------------------------------------------
(* The walk starts with nothing counted and nothing under way. *)
LEMMA ScanInit == Init => ScanInv
  <1>. SUFFICES ASSUME Init PROVE ScanInv
    OBVIOUS
  <1>1. PICK task \in Tasks :
            /\ mem \in task.windows /\ env \in task.settings
            /\ \E root \in task.roots :
                  call = [first |-> root.first, end |-> root.end,
                          segments |-> NoSegments]
    BY DEF Init
  <1>2. mem \in Seq(Command) /\ env \in Settings
    BY <1>1, ScanAssumption
  <1>3. call \in CallType
    BY <1>1, ScanAssumption DEF CallType, NoSegments
  <1>4. stack = <<>> /\ result = [c \in Counter |-> 0] /\ hit = {}
    BY DEF Init
  <1>5. Len(stack) = 0 /\ Scanned = 0
    BY <1>4, EmptySeq DEF Scanned, Counter
  <1>6. TypeOK
    <2>1. stack \in Seq(Frame)
      BY <1>4, EmptySeq
    <2>. QED
      BY <1>2, <1>3, <1>4, <2>1 DEF TypeOK, CallType
  <1>7. env.commands \in Nat /\ env.depth \in Nat
    BY <1>2 DEF Settings
  <1>. QED
    BY <1>4, <1>5, <1>6, <1>7
    DEF ScanInv, FramesDistinct, FramesKept, Chosen, LimitsTrue

(* A call that is turned away. *)
LEMMA RefuseKeeps == ASSUME ScanInv, Refuse PROVE ScanInv'
  <1>1. result \in [Counter -> Nat]
    BY Types DEF ScanInv
  <1>2. \/ result' = result
        \/ result' = Plus(result, {"cycle_references"})
        \/ result' = Plus(result, {"unresolved_references"})
    BY DEF Refuse
  <1>3. result' \in [Counter -> Nat] /\ Scanned' = Scanned
    BY <1>1, <1>2, PlusCounts DEF Scanned
  <1>. QED
    BY <1>3, SameStack DEF Refuse

(* A call that is walked: its list is none of those under way and there is
   room for it. *)
NewFrame == [first |-> call.first, end |-> call.end, at |-> call.first,
             commands |-> 0, segments |-> call.segments, targets |-> <<>>,
             walking |-> TRUE]

LEMMA EnterIs ==
    ASSUME ScanInv, Enter
    PROVE  /\ call # NoCall /\ call' = NoCall /\ ~Aborted
           /\ UNCHANGED <<mem, env, hit>>
           /\ call.first \in DOMAIN mem /\ call.first \notin Starts
           /\ Len(stack) \in Nat /\ Len(stack) <= env.depth
           /\ stack \in Seq(Frame) /\ env.depth \in Nat
           /\ NewFrame \in Frame /\ NewFrame.first = call.first
           /\ NewFrame.commands = 0 /\ NewFrame.targets = <<>>
           /\ NewFrame.walking = TRUE
           /\ stack' \in Seq(Frame) /\ Len(stack') = Len(stack) + 1
           /\ stack' # <<>>
           /\ \A k \in 1..Len(stack) : stack'[k] = stack[k]
           /\ stack'[Len(stack) + 1] = NewFrame
           /\ result' = Plus(result, {"display_lists_scanned"})
           /\ result' \in [Counter -> Nat] /\ Scanned' = Scanned
  <1>. DEFINE n == Len(stack)
  <1>1. /\ stack \in Seq(Frame) /\ n \in Nat
        /\ result \in [Counter -> Nat] /\ call \in CallType
        /\ env.depth \in Nat
    BY Types DEF ScanInv, Enter
  <1>2. /\ call.first \in DOMAIN mem /\ call.first \notin Starts
        /\ n <= env.depth
    BY <1>1 DEF Enter, Enterable, Translates, TooDeep, Depth
  <1>3. NewFrame \in Frame
    <2>1. <<>> \in Seq(Target)
      BY EmptySeq
    <2>. QED
      BY <1>1, <1>2, <2>1 DEF Frame, Target, CallType, NewFrame
  <1>4. stack' = Append(stack, NewFrame) /\ call # NoCall /\ call' = NoCall
        /\ UNCHANGED <<mem, env, hit>> /\ ~Aborted
        /\ result' = Plus(result, {"display_lists_scanned"})
    BY DEF Enter, Enterable, NewFrame
  <1>5. /\ NewFrame.first = call.first /\ NewFrame.commands = 0
        /\ NewFrame.targets = <<>> /\ NewFrame.walking = TRUE
    BY DEF NewFrame
  <1>6. /\ stack' \in Seq(Frame) /\ Len(stack') = n + 1 /\ stack' # <<>>
        /\ \A k \in 1..n : stack'[k] = stack[k]
        /\ stack'[n + 1] = NewFrame
    BY <1>1, <1>3, <1>4, AppendProperties
  <1>7. result' \in [Counter -> Nat] /\ Scanned' = Scanned
    BY <1>1, <1>4, PlusCounts DEF Scanned
  <1>. QED
    BY <1>1, <1>2, <1>3, <1>4, <1>5, <1>6, <1>7

LEMMA EnterKeeps == ASSUME ScanInv, Enter PROVE ScanInv'
  <1>. DEFINE n == Len(stack)
              f == NewFrame
  <1>1. n \in Nat /\ Scanned \in Nat /\ env.list \in Nat /\ env.depth \in Nat
    BY Types DEF ScanInv
  <1>2. /\ call.first \in DOMAIN mem /\ call.first \notin Starts
        /\ n <= env.depth
    BY EnterIs
  <1>4. call # NoCall /\ call' = NoCall /\ UNCHANGED <<mem, env, hit>>
    BY EnterIs
  <1>5. f.first = call.first /\ f.commands = 0 /\ f.targets = <<>>
    BY EnterIs
  <1>6. /\ stack' \in Seq(Frame) /\ Len(stack') = n + 1 /\ stack' # <<>>
        /\ \A k \in 1..n : stack'[k] = stack[k]
        /\ stack'[n + 1] = f
    BY EnterIs
  <1>7. result' \in [Counter -> Nat] /\ Scanned' = Scanned
    BY EnterIs
  <1>. HIDE DEF f
  <1>8. TypeOK'
    BY <1>4, <1>6, <1>7, WantedStays DEF ScanInv, TypeOK
  <1>9. FramesDistinct'
    <2>1. \A i, j \in 1..n : i # j => stack[i].first # stack[j].first
      BY DEF ScanInv, FramesDistinct
    <2>2. \A i \in 1..n : stack[i].first # f.first
      BY <1>2, <1>5 DEF Starts
    <2>3. \A k \in 1..Len(stack') :
              \/ k \in 1..n /\ stack'[k] = stack[k]
              \/ k = n + 1 /\ stack'[k] = f
      BY <1>1, <1>6
    <2>4. \A i, j \in 1..Len(stack') : i # j => stack'[i].first # stack'[j].first
      BY <2>1, <2>2, <2>3
    <2>. QED
      BY <2>4 DEF FramesDistinct
  <1>10. FramesKept'
    <2>1. KeptBy(f, env.list, Scanned, Wanted)
      BY <1>1, <1>5, EmptySeq DEF KeptBy
    <2>2. \A k \in 1..n : KeptBy(stack[k], env.list, Scanned, Wanted)
      BY DEF ScanInv, FramesKept
    <2>3. \A k \in 1..Len(stack') :
              KeptBy(stack'[k], env.list, Scanned, Wanted)
      <3>. TAKE k \in 1..Len(stack')
      <3>1. CASE k = n + 1
        BY <1>6, <2>1, <3>1
      <3>2. CASE k \in 1..n
        BY <1>6, <2>2, <3>2
      <3>. QED
        BY <1>1, <1>6, <3>1, <3>2
    <2>. QED
      BY <1>4, <1>7, <2>3, WantedStays DEF FramesKept
  <1>11. Chosen'
    <2>1. ASSUME NEW k \in 2..Len(stack')
          PROVE  stack'[k].first \in Wanted
      <3>1. CASE k = n + 1
        <4>1. stack # <<>>
          BY <1>1, <2>1, <3>1, EmptySeq
        <4>. QED
          BY <1>4, <1>5, <1>6, <3>1, <4>1 DEF ScanInv, Chosen
      <3>2. CASE k # n + 1
        <4>1. k \in 2..n /\ k \in 1..n
          BY <1>1, <1>6, <2>1, <3>2
        <4>. QED
          BY <1>6, <4>1 DEF ScanInv, Chosen
      <3>. QED
        BY <3>1, <3>2
    <2>. QED
      BY <1>4, <2>1, WantedStays DEF Chosen
  <1>12. LimitsTrue'
    BY <1>4, <1>7 DEF ScanInv, LimitsTrue
  <1>. QED
    BY <1>1, <1>2, <1>4, <1>6, <1>8, <1>9, <1>10, <1>11, <1>12 DEF ScanInv

(* A step of the list on top that is no call: the rest of the invariant. *)
LEMMA TopStep ==
    ASSUME ScanInv, UNCHANGED <<mem, env>>, stack # <<>>, NEW f, f \in Frame,
           stack' = [stack EXCEPT ![Len(stack)] = f], f.first = Top.first,
           Scanned <= Scanned', KeptBy(f, env.list, Scanned', Wanted),
           result' \in [Counter -> Nat],
           hit' \subseteq {"command", "list", "depth"}, LimitsTrue',
           call' # NoCall => call' \in CallType /\ call'.first \in Wanted
    PROVE  ScanInv'
  <1>1. Scanned' \in Nat
    BY DEF Scanned, Counter
  <1>2. /\ stack' \in Seq(Frame) /\ Len(stack') = Len(stack)
        /\ FramesDistinct' /\ FramesKept'
        /\ \A k \in 2..Len(stack') : stack'[k].first \in Wanted'
    BY <1>1, SameLists
  <1>3. TypeOK'
    BY <1>2, WantedStays DEF ScanInv, TypeOK, CallType
  <1>4. Chosen'
    BY <1>2, WantedStays DEF Chosen
  <1>. QED
    BY <1>2, <1>3, <1>4 DEF ScanInv

(* The frame on top is kept by what ScanInv says. *)
LEMMA TopKept ==
    ASSUME ScanInv, stack # <<>>
    PROVE  /\ Top \in Frame /\ KeptBy(Top, env.list, Scanned, Wanted)
           /\ Top.commands \in Nat
           /\ Top.targets \in Seq(Target) /\ Len(Top.targets) \in Nat
  <1>1. Top \in Frame /\ Len(stack) \in 1..Len(stack)
    BY Types DEF ScanInv
  <1>2. KeptBy(Top, env.list, Scanned, Wanted)
    BY <1>1 DEF ScanInv, FramesKept, Top
  <1>3. Top.commands \in Nat /\ Top.targets \in Seq(Target)
    BY <1>1 DEF Frame, Target
  <1>4. Len(Top.targets) \in Nat
    BY <1>3, LenProperties
  <1>. QED
    BY <1>1, <1>2, <1>3, <1>4

(* Stopping to walk changes the frame on top in nothing the invariant looks
   at. *)
LEMMA StopStep ==
    ASSUME ScanInv, UNCHANGED <<mem, env, call>>, call = NoCall, stack # <<>>,
           StopWalking, Scanned' = Scanned, result' \in [Counter -> Nat],
           hit' \subseteq {"command", "list", "depth"}, LimitsTrue'
    PROVE  ScanInv'
  <1>. DEFINE f == [Top EXCEPT !.walking = FALSE]
  <1>1. Top \in Frame /\ KeptBy(Top, env.list, Scanned, Wanted) /\ Scanned \in Nat
        /\ stack \in Seq(Frame) /\ Len(stack) \in 1..Len(stack)
    BY TopKept, Types DEF ScanInv
  <1>2. f \in Frame /\ f.first = Top.first /\ f.commands = Top.commands
        /\ f.targets = Top.targets
    BY <1>1 DEF Frame
  <1>3. stack' = [stack EXCEPT ![Len(stack)] = f]
    BY DEF StopWalking, Top
  <1>. HIDE DEF f
  <1>4. KeptBy(f, env.list, Scanned', Wanted)
    BY <1>1, <1>2 DEF KeptBy
  <1>5. Scanned <= Scanned'
    BY <1>1
  <1>6. call' = NoCall
    OBVIOUS
  <1>. QED
    BY <1>2, <1>3, <1>4, <1>5, <1>6, TopStep

(* The end of a list at a limit. *)
LEMMA StopAtLimitKeeps == ASSUME ScanInv, StopAtLimit PROVE ScanInv'
  <1>1. /\ env.commands \in Nat /\ env.list \in Nat /\ Scanned \in Nat
        /\ result \in [Counter -> Nat] /\ hit \subseteq {"command", "list", "depth"}
    BY Types DEF ScanInv, TypeOK
  <1>2. /\ stack # <<>> /\ call = NoCall /\ StopWalking
        /\ UNCHANGED <<mem, env, call, result>>
        /\ hit' = hit \cup {IF OverBudget THEN "command" ELSE "list"}
        /\ OverBudget \/ OverListBudget
    BY DEF StopAtLimit, Walking
  <1>3. Scanned' = Scanned
    BY <1>2 DEF Scanned
  <1>4. KeptBy(Top, env.list, Scanned, Wanted) /\ Top.commands \in Nat
    BY <1>2, TopKept
  <1>5. OverBudget => Scanned = env.commands
    BY <1>1 DEF OverBudget, ScanInv, LimitsTrue, Scanned
  <1>6. ~OverBudget => Scanned >= env.list
    BY <1>1, <1>2, <1>4 DEF OverListBudget, KeptBy
  <1>7. LimitsTrue'
    BY <1>2, <1>3, <1>5, <1>6 DEF ScanInv, LimitsTrue
  <1>. QED
    BY <1>1, <1>2, <1>3, <1>7, StopStep

(* The end of a list at its known end, or at an address outside. *)
LEMMA StopAtEndKeeps == ASSUME ScanInv, StopAtEnd PROVE ScanInv'
  <1>1. /\ stack # <<>> /\ call = NoCall /\ StopWalking
        /\ UNCHANGED <<mem, env, call, hit>>
        /\ \/ result' = result
           \/ result' = Plus(result, {"unresolved_references"})
    BY DEF StopAtEnd, Walking
  <1>2. result \in [Counter -> Nat] /\ hit \subseteq {"command", "list", "depth"}
    BY Types DEF ScanInv, TypeOK
  <1>3. result' \in [Counter -> Nat] /\ Scanned' = Scanned
    BY <1>1, <1>2, PlusCounts DEF Scanned
  <1>4. LimitsTrue'
    BY <1>1, <1>3 DEF ScanInv, LimitsTrue
  <1>. QED
    BY <1>1, <1>2, <1>3, <1>4, StopStep

(* The end of a list because a limit was hit below it. *)
LEMMA StopOnAbortKeeps == ASSUME ScanInv, StopOnAbort PROVE ScanInv'
  <1>1. /\ stack # <<>> /\ call = NoCall /\ StopWalking
        /\ UNCHANGED <<mem, env, call, result, hit>>
    BY DEF StopOnAbort, Walking
  <1>2. result \in [Counter -> Nat] /\ hit \subseteq {"command", "list", "depth"}
    BY Types DEF ScanInv, TypeOK
  <1>3. Scanned' = Scanned /\ LimitsTrue'
    BY <1>1 DEF ScanInv, LimitsTrue, Scanned
  <1>. QED
    BY <1>1, <1>2, <1>3, StopStep

(* What a branch is scheduled for is a cell the walk may enter. *)
LEMMA ScheduledIsWanted ==
    ASSUME NEW operand, NEW segments, Scheduled(Verdict(operand, segments))
    PROVE  Resolved(operand, segments) \in Wanted
  <1>1. Verdict(operand, segments) \in {"plausible", "payload"}
        /\ (Verdict(operand, segments) = "payload" => env.payload)
    BY DEF Scheduled
  <1>2. BranchReaches(operand, segments)
    BY <1>1 DEF Verdict
  <1>3. Verdict(operand, segments) = "plausible" =>
            Plausible(Resolved(operand, segments))
    BY DEF Verdict
  <1>. QED
    BY <1>1, <1>2, <1>3 DEF Wanted, BranchReaches, Translates

(* A segment table stays one. *)
LEMMA DecodedType ==
    ASSUME NEW cmd \in Command, NEW segments \in [Segment -> Nat]
    PROVE  Decoded(cmd, segments) \in [Segment -> Nat]
  BY DEF Decoded, Command, Operand

(* The next command of the list on top, and what it leads to. *)
Cmd == mem[Top.at]

CmdSegments == Decoded(Cmd, Top.segments)

CmdVerdict ==
    IF Cmd.op = "branch" THEN Verdict(Cmd.to, CmdSegments) ELSE "none"

CmdTarget == [first |-> Resolved(Cmd.to, CmdSegments), end |-> 0,
              segments |-> CmdSegments]

CmdTargets == IF Scheduled(CmdVerdict) THEN Append(Top.targets, CmdTarget)
              ELSE Top.targets

CmdMoved == IF Cmd.op = "end" THEN 0 ELSE 1

CmdFrame == [Top EXCEPT !.segments = CmdSegments,
                        !.walking = Cmd.op # "end",
                        !.at = Top.at + CmdMoved,
                        !.commands = Top.commands + CmdMoved,
                        !.targets = CmdTargets]

CmdNames == Classified(Cmd, Top.at, CmdSegments)
            \cup {"commands_scanned"}
            \cup (IF Depth > 0 THEN {"branch_commands_scanned"} ELSE {})
            \cup (IF Cmd.op = "end" THEN {"enddl_commands"} ELSE {})
            \cup (IF Cmd.op = "branch"
                  THEN Branch(Cmd.to, CmdSegments, CmdVerdict) ELSE {})

(* A command: the counters, the segment table, and the branch it may
   schedule. *)
LEMMA CommandIs ==
    ASSUME ScanInv, WalkCommand
    PROVE  /\ stack # <<>> /\ call = NoCall /\ ~Aborted
           /\ ~OverBudget /\ ~OverListBudget /\ Top.walking
           /\ UNCHANGED <<mem, env, call>>
           /\ Top.at \in DOMAIN mem /\ Cmd \in Command
           /\ CmdSegments \in [Segment -> Nat]
           /\ stack' = [stack EXCEPT ![Len(stack)] = CmdFrame]
           /\ result' = Plus(result, CmdNames)
           /\ hit' = IF CmdVerdict = "deep" THEN hit \cup {"depth"} ELSE hit
           /\ result' \in [Counter -> Nat] /\ Scanned' = Scanned + 1
  <1>1. /\ stack # <<>> /\ call = NoCall /\ ~Aborted /\ Top.walking
        /\ ~OverBudget /\ ~OverListBudget /\ Top.at \in DOMAIN mem
        /\ UNCHANGED <<mem, env, call>>
    BY DEF WalkCommand, Walking, Translates
  <1>2. /\ result \in [Counter -> Nat] /\ mem \in Seq(Command)
        /\ Top \in Frame
    BY <1>1, Types DEF ScanInv
  <1>3. Cmd \in Command
    BY <1>1, <1>2, ElementOfSeq, LenProperties DEF Cmd
  <1>4. CmdSegments \in [Segment -> Nat]
    BY <1>2, <1>3, DecodedType DEF Frame, CmdSegments
  <1>5. result' = Plus(result, CmdNames)
    BY Zenon DEF WalkCommand, CmdNames, Cmd, CmdSegments, CmdVerdict
  <1>6. "commands_scanned" \in CmdNames
    BY DEF CmdNames
  <1>7. result' \in [Counter -> Nat] /\ Scanned' = Scanned + 1
    BY <1>2, <1>5, <1>6, PlusCounts DEF Scanned
  <1>8. stack' = [stack EXCEPT ![Len(stack)] = CmdFrame]
    BY Zenon DEF WalkCommand, CmdFrame, CmdTargets, CmdTarget, CmdVerdict,
                 CmdSegments, CmdMoved, Cmd
  <1>9. hit' = IF CmdVerdict = "deep" THEN hit \cup {"depth"} ELSE hit
    BY Zenon DEF WalkCommand, CmdVerdict, CmdSegments, Cmd
  <1>. QED
    BY <1>1, <1>3, <1>4, <1>5, <1>7, <1>8, <1>9

(* The frame goes on with the branches it had and the one that was
   scheduled. *)
LEMMA CommandFrame ==
    ASSUME ScanInv, WalkCommand
    PROVE  /\ Top \in Frame /\ CmdFrame \in Frame /\ CmdFrame.first = Top.first
           /\ CmdFrame.commands = Top.commands + CmdMoved
           /\ CmdFrame.targets = CmdTargets
           /\ CmdFrame.walking \in BOOLEAN
           /\ Scheduled(CmdVerdict) =>
                 /\ CmdTarget \in Target /\ CmdTarget.first \in Wanted
                 /\ CmdVerdict = Verdict(Cmd.to, CmdSegments)
                 /\ CmdTargets \in Seq(Target)
                 /\ Len(CmdTargets) = Len(Top.targets) + 1
                 /\ \A k \in 1..Len(Top.targets) : CmdTargets[k] = Top.targets[k]
                 /\ CmdTargets[Len(Top.targets) + 1] = CmdTarget
           /\ ~Scheduled(CmdVerdict) => CmdTargets = Top.targets
  <1>1. /\ stack # <<>> /\ Cmd \in Command /\ CmdSegments \in [Segment -> Nat]
    BY CommandIs
  <1>2. /\ Top \in Frame /\ Top.commands \in Nat
        /\ Top.targets \in Seq(Target) /\ Len(Top.targets) \in Nat
    BY <1>1, TopKept
  <1>3. ASSUME Scheduled(CmdVerdict)
        PROVE  /\ CmdTarget \in Target /\ CmdTarget.first \in Wanted
               /\ CmdVerdict = Verdict(Cmd.to, CmdSegments)
    <2>1. CmdVerdict = Verdict(Cmd.to, CmdSegments)
      BY <1>3 DEF Scheduled, CmdVerdict
    <2>2. Resolved(Cmd.to, CmdSegments) \in Wanted
      BY <1>3, <2>1, ScheduledIsWanted
    <2>3. Resolved(Cmd.to, CmdSegments) \in DOMAIN mem
      BY <2>2 DEF Wanted
    <2>. QED
      BY <1>1, <2>1, <2>2, <2>3 DEF CmdTarget, Target
  <1>4. ASSUME Scheduled(CmdVerdict)
        PROVE  /\ CmdTargets \in Seq(Target)
               /\ Len(CmdTargets) = Len(Top.targets) + 1
               /\ \A k \in 1..Len(Top.targets) : CmdTargets[k] = Top.targets[k]
               /\ CmdTargets[Len(Top.targets) + 1] = CmdTarget
    BY <1>2, <1>3, <1>4, AppendProperties DEF CmdTargets
  <1>5. ~Scheduled(CmdVerdict) => CmdTargets = Top.targets
    BY DEF CmdTargets
  <1>6. CmdTargets \in Seq(Target)
    BY <1>2, <1>4, <1>5
  <1>7. Top.at + CmdMoved \in Nat /\ Top.commands + CmdMoved \in Nat
    BY <1>2 DEF Frame, CmdMoved
  <1>8. /\ CmdFrame \in Frame /\ CmdFrame.first = Top.first
        /\ CmdFrame.commands = Top.commands + CmdMoved
        /\ CmdFrame.targets = CmdTargets /\ CmdFrame.walking \in BOOLEAN
    BY <1>1, <1>2, <1>6, <1>7 DEF CmdFrame, Frame, Target
  <1>. QED
    BY <1>2, <1>3, <1>4, <1>5, <1>8

LEMMA WalkCommandKeeps == ASSUME ScanInv, WalkCommand PROVE ScanInv'
  <1>1. /\ stack # <<>> /\ call = NoCall /\ ~Aborted
        /\ ~OverBudget /\ ~OverListBudget
        /\ UNCHANGED <<mem, env, call>>
        /\ stack' = [stack EXCEPT ![Len(stack)] = CmdFrame]
        /\ hit' \in {hit, hit \cup {"depth"}}
        /\ result' \in [Counter -> Nat] /\ Scanned' = Scanned + 1
    BY CommandIs
  <1>2. /\ env.commands \in Nat /\ env.list \in Nat /\ Scanned \in Nat
        /\ hit \subseteq {"command", "list", "depth"}
    BY <1>1, Types DEF ScanInv, TypeOK
  <1>3. /\ KeptBy(Top, env.list, Scanned, Wanted)
        /\ Top.commands \in Nat
        /\ Top.targets \in Seq(Target) /\ Len(Top.targets) \in Nat
    BY <1>1, TopKept
  <1>4. /\ CmdFrame \in Frame /\ CmdFrame.first = Top.first
        /\ CmdFrame.commands = Top.commands + CmdMoved
        /\ CmdFrame.targets = CmdTargets
    BY CommandFrame
  <1>5. \A k \in 1..Len(CmdTargets) : CmdTargets[k].first \in Wanted
    <2>1. \A k \in 1..Len(Top.targets) : Top.targets[k].first \in Wanted
      BY <1>3 DEF KeptBy
    <2>2. CASE Scheduled(CmdVerdict)
      <3>1. /\ CmdTarget.first \in Wanted
            /\ Len(CmdTargets) = Len(Top.targets) + 1
            /\ \A k \in 1..Len(Top.targets) : CmdTargets[k] = Top.targets[k]
            /\ CmdTargets[Len(Top.targets) + 1] = CmdTarget
        BY <2>2, CommandFrame
      <3>2. \A k \in 1..Len(CmdTargets) :
                k \in 1..Len(Top.targets) \/ k = Len(Top.targets) + 1
        BY <1>3, <3>1
      <3>. QED
        BY <2>1, <3>1, <3>2
    <2>3. CASE ~Scheduled(CmdVerdict)
      BY <2>1, <2>3, CommandFrame
    <2>. QED
      BY <2>2, <2>3
  <1>6. /\ Top.commands + CmdMoved <= env.list
        /\ Top.commands + CmdMoved <= Scanned + 1
    BY <1>1, <1>2, <1>3 DEF OverListBudget, KeptBy, CmdMoved
  <1>7. KeptBy(CmdFrame, env.list, Scanned', Wanted)
    BY <1>1, <1>4, <1>5, <1>6 DEF KeptBy
  <1>8. LimitsTrue'
    <2>1. Scanned < env.commands
      BY <1>1, <1>2 DEF OverBudget, Scanned
    <2>2. "command" \notin hit'
      BY <1>1 DEF Aborted
    <2>3. "list" \in hit' => Scanned >= env.list
      BY <1>1 DEF ScanInv, LimitsTrue
    <2>. QED
      BY <1>1, <1>2, <2>1, <2>2, <2>3 DEF LimitsTrue
  <1>9. Scanned <= Scanned' /\ call' = NoCall
        /\ hit' \subseteq {"command", "list", "depth"}
    BY <1>1, <1>2
  <1>. QED
    BY <1>1, <1>4, <1>7, <1>8, <1>9, TopStep

(* A branch that was scheduled becomes a call. *)
BranchFrame == [Top EXCEPT !.targets = Tail(Top.targets)]

LEMMA CallBranchIs ==
    ASSUME ScanInv, CallBranch
    PROVE  /\ stack # <<>> /\ call = NoCall /\ ~Aborted /\ ~Top.walking
           /\ UNCHANGED <<mem, env, result, hit>>
           /\ call' = Top.targets[1] /\ 1 \in 1..Len(Top.targets)
           /\ call' \in Target /\ call' \in CallType
           /\ stack' = [stack EXCEPT ![Len(stack)] = BranchFrame]
           /\ Top \in Frame /\ BranchFrame \in Frame
           /\ BranchFrame.first = Top.first
           /\ BranchFrame.commands = Top.commands
           /\ BranchFrame.walking = Top.walking
           /\ Len(BranchFrame.targets) = Len(Top.targets) - 1
           /\ \A k \in 1..Len(BranchFrame.targets) :
                  /\ k + 1 \in 1..Len(Top.targets)
                  /\ BranchFrame.targets[k] = Top.targets[k + 1]
  <1>1. /\ stack # <<>> /\ Top.targets # <<>> /\ call' = Head(Top.targets)
        /\ call = NoCall /\ ~Aborted /\ ~Top.walking
        /\ UNCHANGED <<mem, env, result, hit>>
    BY DEF CallBranch, Branching
  <1>2. /\ stack \in Seq(Frame) /\ Len(stack) \in 1..Len(stack)
        /\ DOMAIN mem \subseteq Nat
    BY <1>1, Types DEF ScanInv
  <1>3. /\ Top \in Frame /\ Top.targets \in Seq(Target)
        /\ Len(Top.targets) \in Nat
    BY <1>1, TopKept
  <1>4. stack' = [stack EXCEPT ![Len(stack)] = BranchFrame]
    BY <1>2 DEF CallBranch, Top, BranchFrame
  <1>5. /\ Head(Top.targets) \in Target /\ Tail(Top.targets) \in Seq(Target)
        /\ Len(Tail(Top.targets)) = Len(Top.targets) - 1
        /\ \A k \in 1..Len(Tail(Top.targets)) :
               Tail(Top.targets)[k] = Top.targets[k + 1]
        /\ Head(Top.targets) = Top.targets[1] /\ 1 \in 1..Len(Top.targets)
    <2>1. Len(Top.targets) # 0
      BY <1>1, <1>3, EmptySeq
    <2>. QED
      BY <1>1, <1>3, <2>1, HeadTailProperties
  <1>6. /\ BranchFrame \in Frame /\ BranchFrame.first = Top.first
        /\ BranchFrame.commands = Top.commands
        /\ BranchFrame.walking = Top.walking
        /\ BranchFrame.targets = Tail(Top.targets)
    BY <1>3, <1>5 DEF Frame, Target, BranchFrame
  <1>7. \A k \in 1..Len(Tail(Top.targets)) : k + 1 \in 1..Len(Top.targets)
    BY <1>3, <1>5
  <1>8. call' \in Target /\ call' \in CallType
    BY <1>1, <1>2, <1>5 DEF Target, CallType
  <1>. QED
    BY <1>1, <1>3, <1>4, <1>5, <1>6, <1>7, <1>8

LEMMA CallBranchKeeps == ASSUME ScanInv, CallBranch PROVE ScanInv'
  <1>1. /\ stack # <<>> /\ UNCHANGED <<mem, env, result, hit>>
        /\ call' = Top.targets[1] /\ 1 \in 1..Len(Top.targets)
        /\ call' \in CallType
        /\ stack' = [stack EXCEPT ![Len(stack)] = BranchFrame]
        /\ BranchFrame \in Frame /\ BranchFrame.first = Top.first
        /\ BranchFrame.commands = Top.commands
    BY CallBranchIs
  <1>2. /\ result \in [Counter -> Nat] /\ Scanned \in Nat
        /\ hit \subseteq {"command", "list", "depth"}
    BY <1>1, Types DEF ScanInv, TypeOK
  <1>3. KeptBy(Top, env.list, Scanned, Wanted)
    BY <1>1, TopKept
  <1>4. Scanned' = Scanned /\ LimitsTrue' /\ Scanned <= Scanned'
    BY <1>1, <1>2 DEF Scanned, ScanInv, LimitsTrue
  <1>5. KeptBy(BranchFrame, env.list, Scanned', Wanted)
    <2>1. \A k \in 1..Len(Top.targets) : Top.targets[k].first \in Wanted
      BY <1>3 DEF KeptBy
    <2>2. \A k \in 1..Len(BranchFrame.targets) :
              BranchFrame.targets[k].first \in Wanted
      BY <2>1, CallBranchIs
    <2>. QED
      BY <1>1, <1>3, <1>4, <2>2 DEF KeptBy
  <1>6. call'.first \in Wanted
    BY <1>1, <1>3 DEF KeptBy
  <1>. QED
    BY <1>1, <1>2, <1>4, <1>5, <1>6, TopStep

(* The indices of a sequence that loses its last element. *)
LEMMA OneLess ==
    ASSUME NEW n \in Nat, n >= 1
    PROVE  /\ n - 1 \in Nat /\ (n - 1) - 1 + 1 = n - 1
           /\ 1 <= n - 1 \/ n - 1 = 0
           /\ \A k \in 1..(n - 1) : 1 + k - 1 = k /\ k \in 1..n
  OBVIOUS

(* A list is left. *)
LEMMA ReturnIs ==
    ASSUME ScanInv, Return
    PROVE  /\ stack # <<>> /\ call = NoCall /\ ~Top.walking
           /\ Aborted \/ Top.targets = <<>>
           /\ UNCHANGED <<mem, env, call, result, hit>>
           /\ stack \in Seq(Frame) /\ Len(stack) \in Nat /\ Len(stack) >= 1
           /\ env.depth \in Nat
           /\ stack' \in Seq(Frame) /\ Len(stack') = Len(stack) - 1
           /\ \A k \in 1..(Len(stack) - 1) : stack'[k] = stack[k]
  <1>. DEFINE n == Len(stack)
  <1>1. /\ stack # <<>> /\ call = NoCall /\ stack' = SubSeq(stack, 1, n - 1)
        /\ ~Top.walking /\ (Aborted \/ Top.targets = <<>>)
        /\ UNCHANGED <<mem, env, call, result, hit>>
    BY DEF Return, Branching
  <1>2. stack \in Seq(Frame) /\ n \in Nat /\ n >= 1 /\ env.depth \in Nat
    BY <1>1, Types DEF ScanInv
  <1>3. /\ stack' \in Seq(Frame) /\ Len(stack') = n - 1
        /\ \A k \in 1..(n - 1) : stack'[k] = stack[k]
    <2>1. \A k \in 1..(n - 1) : stack[k] \in Frame
      BY <1>2, ElementOfSeq
    <2>2. /\ SubSeq(stack, 1, n - 1) \in Seq(Frame)
          /\ Len(SubSeq(stack, 1, n - 1)) =
                IF 1 <= n - 1 THEN (n - 1) - 1 + 1 ELSE 0
          /\ \A k \in 1..((n - 1) - 1 + 1) :
                SubSeq(stack, 1, n - 1)[k] = stack[1 + k - 1]
      <3>1. 1 \in Int /\ n - 1 \in Int
        BY <1>2
      <3>. HIDE DEF n
      <3>2. \A k \in 1..(n - 1) : stack[k] \in Frame
        BY <2>1
      <3>. QED
        BY <3>1, <3>2, SubSeqProperties
    <2>3. (n - 1) - 1 + 1 = n - 1 /\ (1 <= n - 1 \/ n - 1 = 0)
          /\ \A k \in 1..(n - 1) : 1 + k - 1 = k
      <3>. HIDE DEF n
      <3>. QED
        BY <1>2, OneLess
    <2>5. Len(stack') = n - 1
      BY <1>1, <1>2, <2>2, <2>3
    <2>6. \A k \in 1..(n - 1) : stack'[k] = stack[k]
      BY <1>1, <2>2, <2>3
    <2>. QED
      BY <1>1, <2>2, <2>5, <2>6
  <1>. QED
    BY <1>1, <1>2, <1>3

LEMMA ReturnKeeps == ASSUME ScanInv, Return PROVE ScanInv'
  <1>. DEFINE n == Len(stack)
  <1>1. UNCHANGED <<mem, env, call, result, hit>> /\ call = NoCall
    BY ReturnIs
  <1>2. n \in Nat /\ n >= 1 /\ env.depth \in Nat
    BY ReturnIs
  <1>3. /\ stack' \in Seq(Frame) /\ Len(stack') = n - 1
        /\ \A k \in 1..(n - 1) : stack'[k] = stack[k]
    BY ReturnIs
  <1>4. TypeOK'
    BY <1>1, <1>3, WantedStays DEF ScanInv, TypeOK
  <1>5. FramesDistinct'
    <2>1. \A i, j \in 1..n : i # j => stack[i].first # stack[j].first
      BY DEF ScanInv, FramesDistinct
    <2>2. ASSUME NEW i \in 1..(n - 1), NEW j \in 1..(n - 1), i # j
          PROVE  stack'[i].first # stack'[j].first
      BY <1>2, <1>3, <2>1, <2>2
    <2>. QED
      BY <1>3, <2>2 DEF FramesDistinct
  <1>6. FramesKept'
    <2>1. \A k \in 1..n : KeptBy(stack[k], env.list, Scanned, Wanted)
      BY DEF ScanInv, FramesKept
    <2>2. \A k \in 1..(n - 1) : KeptBy(stack'[k], env.list, Scanned, Wanted)
      BY <1>2, <1>3, <2>1
    <2>. QED
      BY <1>1, <1>3, <2>2, WantedStays DEF FramesKept, Scanned
  <1>7. Chosen'
    <2>1. \A k \in 2..n : stack[k].first \in Wanted
      BY DEF ScanInv, Chosen
    <2>2. \A k \in 2..(n - 1) : stack'[k].first \in Wanted
      BY <1>2, <1>3, <2>1
    <2>. QED
      BY <1>1, <1>3, <2>2, WantedStays DEF Chosen
  <1>8. LimitsTrue'
    BY <1>1 DEF ScanInv, LimitsTrue, Scanned
  <1>. QED
    BY <1>1, <1>2, <1>3, <1>4, <1>5, <1>6, <1>7, <1>8 DEF ScanInv

-----------------------------------------------------------------------------
(* Every step of the walk keeps the invariant. *)
LEMMA ScanStep ==
    ASSUME ScanInv, [Next]_vars
    PROVE  ScanInv'
  <1>1. CASE UNCHANGED vars
    <2>1. UNCHANGED <<mem, env, call, stack, result, hit>>
      BY <1>1 DEF vars
    <2>2. TypeOK'
      BY <2>1, WantedStays DEF ScanInv, TypeOK
    <2>. QED
      BY <2>1, <2>2, WantedStays
      DEF ScanInv, FramesDistinct, FramesKept, Chosen, LimitsTrue, Scanned
  <1>2. CASE Refuse
    BY <1>2, RefuseKeeps
  <1>3. CASE Enter
    BY <1>3, EnterKeeps
  <1>4. CASE StopAtLimit
    BY <1>4, StopAtLimitKeeps
  <1>5. CASE StopAtEnd
    BY <1>5, StopAtEndKeeps
  <1>6. CASE StopOnAbort
    BY <1>6, StopOnAbortKeeps
  <1>7. CASE WalkCommand
    BY <1>7, WalkCommandKeeps
  <1>8. CASE CallBranch
    BY <1>8, CallBranchKeeps
  <1>9. CASE Return
    BY <1>9, ReturnKeeps
  <1>. QED
    BY <1>1, <1>2, <1>3, <1>4, <1>5, <1>6, <1>7, <1>8, <1>9 DEF Next, Finished

(* The invariant holds at every moment of every walk. *)
LEMMA ScanInvariant == Spec => []ScanInv
  BY ScanInit, ScanStep, PTL DEF Spec

(* Lists that are all different are as many as there are frames. *)
LEMMA StartsAreAsMany ==
    ASSUME ScanInv
    PROVE  Cardinality(Starts) = Len(stack)
  <1>. DEFINE n == Len(stack)
              g == [k \in 1..n |-> stack[k].first]
  <1>1. n \in Nat
    BY Types DEF ScanInv
  <1>2. g \in Surjection(1..n, Starts)
    BY DEF Surjection, Starts
  <1>3. g \in Injection(1..n, Starts)
    BY <1>2 DEF Injection, Surjection, IsInjective, ScanInv, FramesDistinct
  <1>4. ExistsBijection(1..n, Starts)
    BY <1>2, <1>3 DEF ExistsBijection, Bijection
  <1>. QED
    BY <1>1, <1>4, FS_CountingElements

(* Types, the room that was reserved for the stack, and that no list is
   walked inside itself: for every memory, whatever its lists branch to. *)
THEOREM StackStaysSound == Spec => []StackSound
  <1>1. ScanInv => StackSound
    BY StartsAreAsMany DEF ScanInv, StackSound
  <1>. QED
    BY <1>1, ScanInvariant, PTL

(* All three limits hold exactly and are reported where they were reached,
   for every value of them, 0 included. *)
THEOREM LimitsHold == Spec => []WithinBudgets
  <1>1. ScanInv => WithinBudgets
    <2>. SUFFICES ASSUME ScanInv PROVE WithinBudgets
      OBVIOUS
    <2>1. \A k \in 1..Len(stack) : stack[k].commands <= env.list
      BY DEF ScanInv, FramesKept, KeptBy
    <2>. QED
      BY <2>1 DEF ScanInv, LimitsTrue, WithinBudgets, Scanned
  <1>. QED
    BY <1>1, ScanInvariant, PTL

(* A list other than the task's own is walked only where a probe found one,
   or the settings ask for it, whatever the probe's thresholds are. *)
THEOREM WalksOnlyPlausible == Spec => []OnlyPlausibleWalked
  <1>1. ScanInv => OnlyPlausibleWalked
    BY DEF ScanInv, Chosen, Wanted, OnlyPlausibleWalked
  <1>. QED
    BY <1>1, ScanInvariant, PTL

(* After the limit on commands or on depth was hit, no step counts anything or
   starts a list. *)
THEOREM AbortStaysFinal == Spec => AbortIsFinal
  <1>1. ASSUME [Next]_vars, Aborted
        PROVE  (result' = result /\ call' = NoCall) \/ UNCHANGED vars
    <2>1. CASE UNCHANGED vars
      BY <2>1
    <2>2. CASE Refuse
      BY <1>1, <2>2 DEF Refuse
    <2>3. CASE StopOnAbort
      BY <2>3 DEF StopOnAbort, Walking
    <2>4. CASE Return
      BY <2>4 DEF Return, Branching
    <2>5. CASE Enter \/ StopAtLimit \/ StopAtEnd \/ WalkCommand \/ CallBranch
      BY <1>1, <2>5
      DEF Enter, Enterable, StopAtLimit, StopAtEnd, WalkCommand, CallBranch
    <2>. QED
      BY <1>1, <2>1, <2>2, <2>3, <2>4, <2>5 DEF Next, Finished
  <1>2. [Next]_vars => [Aborted => result' = result /\ call' = NoCall]_vars
    BY <1>1
  <1>. QED
    BY <1>2, PTL DEF Spec, AbortIsFinal
-----------------------------------------------------------------------------
(* The branches that wait lead to lists that are not under way and for which
   there is room: what was judged when the branch was met still holds when it
   is walked, because the lists above it are the same by then. *)
Above(k) == {stack[j].first : j \in 1..k}

NewLists ==
    /\ \A k \in 1..Len(stack) : \A i \in 1..Len(stack[k].targets) :
          k <= env.depth /\ stack[k].targets[i].first \notin Above(k)
    /\ call # NoCall /\ stack # <<>> =>
          Len(stack) <= env.depth /\ call.first \notin Starts

LEMMA StartsAbove == Starts = Above(Len(stack))
  BY DEF Starts, Above

(* The list on top goes on as the frame f. *)
LEMMA TopNew ==
    ASSUME ScanInv, NewLists, UNCHANGED env, stack # <<>>, NEW f, f \in Frame,
           stack' = [stack EXCEPT ![Len(stack)] = f], f.first = Top.first,
           \A i \in 1..Len(f.targets) :
              Len(stack) <= env.depth /\ f.targets[i].first \notin Starts,
           call' # NoCall => Len(stack) <= env.depth /\ call'.first \notin Starts
    PROVE  NewLists'
  <1>. DEFINE n == Len(stack)
  <1>1. stack \in Seq(Frame) /\ n \in 1..n /\ n \in Nat
    BY Types DEF ScanInv
  <1>2. /\ Len(stack') = n
        /\ \A k \in 1..n : stack'[k] = IF k = n THEN f ELSE stack[k]
    BY <1>1, ExceptSeq
  <1>3. \A k \in 1..n : stack'[k].first = stack[k].first
    BY <1>2 DEF Top
  <1>4. \A k \in 1..n : Above(k)' = Above(k)
    <2>. TAKE k \in 1..n
    <2>1. \A j \in 1..k : j \in 1..n
      BY <1>1
    <2>. QED
      BY <1>3, <2>1 DEF Above
  <1>5. Starts' = Starts
    BY <1>1, <1>2, <1>4, StartsAbove DEF Starts, Above
  <1>6. ASSUME NEW k \in 1..n, NEW i \in 1..Len(stack'[k].targets)
        PROVE  k <= env.depth /\ stack'[k].targets[i].first \notin Above(k)
    <2>1. CASE k = n
      <3>1. stack'[k] = f /\ Starts = Above(k)
        BY <1>2, <2>1, StartsAbove
      <3>. QED
        BY <1>6, <2>1, <3>1
    <2>2. CASE k # n
      BY <1>2, <1>6, <2>2 DEF NewLists
    <2>. QED
      BY <2>1, <2>2
  <1>. QED
    BY <1>2, <1>4, <1>5, <1>6 DEF NewLists

LEMMA NewListsStop ==
    ASSUME ScanInv, NewLists, UNCHANGED <<env, call>>, call = NoCall,
           stack # <<>>, StopWalking
    PROVE  NewLists'
  <1>. DEFINE f == [Top EXCEPT !.walking = FALSE]
              n == Len(stack)
  <1>1. Top \in Frame /\ n \in 1..n
    BY Types DEF ScanInv
  <1>2. f \in Frame /\ f.first = Top.first /\ f.targets = Top.targets
    BY <1>1 DEF Frame
  <1>3. stack' = [stack EXCEPT ![n] = f]
    BY DEF StopWalking, Top
  <1>4. \A i \in 1..Len(Top.targets) :
            n <= env.depth /\ Top.targets[i].first \notin Starts
    BY <1>1, StartsAbove DEF NewLists, Top
  <1>. HIDE DEF f
  <1>. QED
    BY <1>2, <1>3, <1>4, TopNew

LEMMA NewListsStep ==
    ASSUME ScanInv, NewLists, [Next]_vars
    PROVE  NewLists'
  <1>. DEFINE n == Len(stack)
  <1>1. CASE UNCHANGED vars \/ Finished
    <2>1. UNCHANGED <<env, call, stack>>
      BY <1>1 DEF vars, Finished
    <2>. QED
      BY <2>1 DEF NewLists, Above, Starts
  <1>2. CASE Refuse
    BY <1>2 DEF Refuse, NewLists, Above, Starts
  <1>3. CASE Enter
    <2>1. /\ call' = NoCall /\ UNCHANGED env /\ n \in Nat
          /\ Len(stack') = n + 1 /\ stack'[n + 1].targets = <<>>
          /\ \A k \in 1..n : stack'[k] = stack[k]
      BY <1>3, EnterIs
    <2>2. ASSUME NEW k \in 1..(n + 1), NEW i \in 1..Len(stack'[k].targets)
          PROVE  k <= env.depth /\ stack'[k].targets[i].first \notin Above(k)'
      <3>1. k \in 1..n
        BY <2>1, <2>2, EmptySeq
      <3>2. \A j \in 1..k : j \in 1..n
        BY <2>1, <3>1
      <3>3. Above(k)' = Above(k)
        BY <2>1, <3>2 DEF Above
      <3>. QED
        BY <2>1, <2>2, <3>1, <3>3 DEF NewLists
    <2>. QED
      BY <2>1, <2>2 DEF NewLists
  <1>4. CASE StopAtLimit \/ StopAtEnd \/ StopOnAbort
    BY <1>4, NewListsStop DEF StopAtLimit, StopAtEnd, StopOnAbort, Walking
  <1>5. CASE WalkCommand
    <2>1. /\ stack # <<>> /\ call' = NoCall /\ UNCHANGED env
          /\ stack' = [stack EXCEPT ![n] = CmdFrame]
          /\ n \in Nat /\ n \in 1..n /\ env.depth \in Nat
      BY <1>5, CommandIs, Types DEF ScanInv
    <2>2. /\ CmdFrame \in Frame /\ CmdFrame.first = Top.first
          /\ CmdFrame.targets = CmdTargets
      BY <1>5, CommandFrame
    <2>3. \A i \in 1..Len(Top.targets) :
              n <= env.depth /\ Top.targets[i].first \notin Starts
      BY <2>1, StartsAbove DEF NewLists, Top
    <2>4. \A i \in 1..Len(CmdTargets) :
              n <= env.depth /\ CmdTargets[i].first \notin Starts
      <3>1. CASE ~Scheduled(CmdVerdict)
        BY <1>5, <2>3, <3>1, CommandFrame
      <3>2. CASE Scheduled(CmdVerdict)
        <4>1. /\ CmdVerdict = Verdict(Cmd.to, CmdSegments)
              /\ Len(CmdTargets) = Len(Top.targets) + 1
              /\ \A k \in 1..Len(Top.targets) : CmdTargets[k] = Top.targets[k]
              /\ CmdTargets[Len(Top.targets) + 1] = CmdTarget
          BY <1>5, <3>2, CommandFrame
        <4>2. CmdVerdict \notin {"untranslated", "cycle", "deep"}
          BY <3>2 DEF Scheduled
        <4>3. Resolved(Cmd.to, CmdSegments) \notin Starts /\ ~TooDeep
          BY <4>1, <4>2 DEF Verdict
        <4>4. CmdTarget.first \notin Starts
          BY <4>3 DEF CmdTarget
        <4>5. n <= env.depth
          BY <2>1, <4>3 DEF TooDeep, Depth
        <4>6. \A k \in 1..Len(CmdTargets) :
                  k \in 1..Len(Top.targets) \/ k = Len(Top.targets) + 1
          BY <2>1, <4>1, TopKept
        <4>. QED
          BY <2>3, <4>1, <4>4, <4>5, <4>6
      <3>. QED
        BY <3>1, <3>2
    <2>. QED
      BY <2>1, <2>2, <2>4, TopNew
  <1>6. CASE CallBranch
    <2>1. /\ stack # <<>> /\ UNCHANGED env
          /\ stack' = [stack EXCEPT ![n] = BranchFrame]
          /\ BranchFrame \in Frame /\ BranchFrame.first = Top.first
          /\ call' = Top.targets[1] /\ 1 \in 1..Len(Top.targets)
          /\ \A k \in 1..Len(BranchFrame.targets) :
                /\ k + 1 \in 1..Len(Top.targets)
                /\ BranchFrame.targets[k] = Top.targets[k + 1]
      BY <1>6, CallBranchIs
    <2>2. n \in 1..n
      BY <2>1, Types DEF ScanInv
    <2>3. \A i \in 1..Len(Top.targets) :
              n <= env.depth /\ Top.targets[i].first \notin Starts
      BY <2>2, StartsAbove DEF NewLists, Top
    <2>. QED
      BY <2>1, <2>3, TopNew
  <1>7. CASE Return
    <2>1. /\ call' = NoCall /\ UNCHANGED env /\ n \in Nat /\ n >= 1
          /\ Len(stack') = n - 1
          /\ \A k \in 1..(n - 1) : stack'[k] = stack[k]
      BY <1>7, ReturnIs
    <2>2. ASSUME NEW k \in 1..(n - 1), NEW i \in 1..Len(stack'[k].targets)
          PROVE  k <= env.depth /\ stack'[k].targets[i].first \notin Above(k)'
      <3>1. k \in 1..n /\ \A j \in 1..k : j \in 1..(n - 1)
        BY <2>1
      <3>2. Above(k)' = Above(k)
        BY <2>1, <3>1 DEF Above
      <3>. QED
        BY <2>1, <2>2, <3>1, <3>2 DEF NewLists
    <2>. QED
      BY <2>1, <2>2 DEF NewLists
  <1>. QED
    BY <1>1, <1>2, <1>3, <1>4, <1>5, <1>6, <1>7 DEF Next

LEMMA NewListsInvariant == Spec => [](ScanInv /\ NewLists)
  <1>1. Init => NewLists
    BY EmptySeq DEF Init, NewLists
  <1>. QED
    BY <1>1, ScanInit, ScanStep, NewListsStep, PTL DEF Spec

(* So no check at the head of scan_display_list turns a branch away: a call
   is refused only because the walk was ended, or as the task's own list. *)
LEMMA RefusedIs ==
    ASSUME ScanInv, NewLists, Refuse
    PROVE  /\ call # NoCall /\ call' = NoCall /\ UNCHANGED <<env, stack, hit>>
           /\ \/ result' = result
              \/ result' = Plus(result, {"unresolved_references"})
           /\ stack # <<>> => Aborted
  <1>1. env.depth \in Nat /\ Len(stack) \in Nat /\ call # NoCall
        /\ (stack = <<>> => Len(stack) = 0)
    BY Types, EmptySeq DEF ScanInv, Refuse
  <1>2. ~TooDeep /\ call.first \notin Starts
    <2>1. CASE stack = <<>>
      BY <1>1, <2>1 DEF TooDeep, Depth, Starts
    <2>2. CASE stack # <<>>
      BY <1>1, <2>2 DEF TooDeep, Depth, NewLists
    <2>. QED
      BY <2>1, <2>2
  <1>3. stack # <<>> => Translates(call.first)
    BY <1>1 DEF ScanInv, Chosen, Wanted, Translates
  <1>4. Aborted \/ ~Translates(call.first)
    BY <1>2 DEF Refuse, Enterable
  <1>. QED
    BY <1>2, <1>3, <1>4 DEF Refuse
-----------------------------------------------------------------------------
(* How the report adds up: what a command is counted as is put together from
   sets of names, each of which adds up by itself. *)
Ones(names) == [c \in Counter |-> IF c \in names THEN 1 ELSE 0]

Adds(names, deep) == AddsUp(Ones(names), deep)

LEMMA SumAdds ==
    ASSUME NEW a, NEW x \in Nat, AddsUp(a, x), NEW b, NEW y \in Nat, AddsUp(b, y),
           NEW c, \A d \in Counter : /\ a[d] \in Nat /\ b[d] \in Nat
                                    /\ c[d] = a[d] + b[d]
    PROVE  AddsUp(c, x + y)
  <1>1. c["commands_scanned"] =
            c["rsp_commands"] + c["rdp_commands"]
    <2>1. \A d \in {"commands_scanned", "rsp_commands", "rdp_commands"} :
              a[d] \in Nat /\ b[d] \in Nat /\ c[d] = a[d] + b[d]
      BY DEF Counter
    <2>2. /\ a["commands_scanned"] =
                  a["rsp_commands"] + a["rdp_commands"]
          /\ b["commands_scanned"] =
                  b["rsp_commands"] + b["rdp_commands"]
      BY DEF AddsUp
    <2>. QED
      BY <2>1, <2>2
  <1>2. c["backend_packets"] =
            c["backend_geometry_packets"] +
            c["backend_state_packets"] +
            c["backend_texture_packets"] +
            c["backend_target_packets"] + c["backend_sync_packets"]
    <2>1. \A d \in {"backend_packets", "backend_geometry_packets",
            "backend_state_packets", "backend_texture_packets",
            "backend_target_packets", "backend_sync_packets"} :
              a[d] \in Nat /\ b[d] \in Nat /\ c[d] = a[d] + b[d]
      BY DEF Counter
    <2>2. /\ a["backend_packets"] =
                  a["backend_geometry_packets"] +
                  a["backend_state_packets"] +
                  a["backend_texture_packets"] +
                  a["backend_target_packets"] +
                  a["backend_sync_packets"]
          /\ b["backend_packets"] =
                  b["backend_geometry_packets"] +
                  b["backend_state_packets"] +
                  b["backend_texture_packets"] +
                  b["backend_target_packets"] +
                  b["backend_sync_packets"]
      BY DEF AddsUp
    <2>. QED
      BY <2>1, <2>2
  <1>3. c["backend_address_refs"] =
            c["backend_valid_refs"] + c["backend_invalid_refs"]
    <2>1. \A d \in {"backend_address_refs", "backend_valid_refs",
            "backend_invalid_refs"} :
              a[d] \in Nat /\ b[d] \in Nat /\ c[d] = a[d] + b[d]
      BY DEF Counter
    <2>2. /\ a["backend_address_refs"] =
                  a["backend_valid_refs"] + a["backend_invalid_refs"]
          /\ b["backend_address_refs"] =
                  b["backend_valid_refs"] + b["backend_invalid_refs"]
      BY DEF AddsUp
    <2>. QED
      BY <2>1, <2>2
  <1>4. c["backend_valid_refs"] =
            c["backend_backed_refs"] + c["backend_unbacked_refs"]
    <2>1. \A d \in {"backend_valid_refs", "backend_backed_refs",
            "backend_unbacked_refs"} :
              a[d] \in Nat /\ b[d] \in Nat /\ c[d] = a[d] + b[d]
      BY DEF Counter
    <2>2. /\ a["backend_valid_refs"] =
                  a["backend_backed_refs"] + a["backend_unbacked_refs"]
          /\ b["backend_valid_refs"] =
                  b["backend_backed_refs"] + b["backend_unbacked_refs"]
      BY DEF AddsUp
    <2>. QED
      BY <2>1, <2>2
  <1>5. c["texture_image_raw_candidates"] =
            c["texture_image_real_dl_commands"] +
            c["texture_image_malformed_dl_commands"] +
            c["texture_image_payload_false_positives"]
    <2>1. \A d \in {"texture_image_raw_candidates",
            "texture_image_real_dl_commands",
            "texture_image_malformed_dl_commands",
            "texture_image_payload_false_positives"} :
              a[d] \in Nat /\ b[d] \in Nat /\ c[d] = a[d] + b[d]
      BY DEF Counter
    <2>2. /\ a["texture_image_raw_candidates"] =
                  a["texture_image_real_dl_commands"] +
                  a["texture_image_malformed_dl_commands"] +
                  a["texture_image_payload_false_positives"]
          /\ b["texture_image_raw_candidates"] =
                  b["texture_image_real_dl_commands"] +
                  b["texture_image_malformed_dl_commands"] +
                  b["texture_image_payload_false_positives"]
      BY DEF AddsUp
    <2>. QED
      BY <2>1, <2>2
  <1>6. c["texture_image_real_dl_commands"] =
            c["texture_image_real_backed"] +
            c["texture_image_real_unbacked"]
    <2>1. \A d \in {"texture_image_real_dl_commands",
            "texture_image_real_backed", "texture_image_real_unbacked"} :
              a[d] \in Nat /\ b[d] \in Nat /\ c[d] = a[d] + b[d]
      BY DEF Counter
    <2>2. /\ a["texture_image_real_dl_commands"] =
                  a["texture_image_real_backed"] +
                  a["texture_image_real_unbacked"]
          /\ b["texture_image_real_dl_commands"] =
                  b["texture_image_real_backed"] +
                  b["texture_image_real_unbacked"]
      BY DEF AddsUp
    <2>. QED
      BY <2>1, <2>2
  <1>7. c["branch_targets_considered"] =
            c["branch_targets_plausible"] +
            c["branch_targets_payload_or_unknown"] +
            c["branch_targets_untranslated"]
    <2>1. \A d \in {"branch_targets_considered", "branch_targets_plausible",
            "branch_targets_payload_or_unknown",
            "branch_targets_untranslated"} :
              a[d] \in Nat /\ b[d] \in Nat /\ c[d] = a[d] + b[d]
      BY DEF Counter
    <2>2. /\ a["branch_targets_considered"] =
                  a["branch_targets_plausible"] +
                  a["branch_targets_payload_or_unknown"] +
                  a["branch_targets_untranslated"]
          /\ b["branch_targets_considered"] =
                  b["branch_targets_plausible"] +
                  b["branch_targets_payload_or_unknown"] +
                  b["branch_targets_untranslated"]
      BY DEF AddsUp
    <2>. QED
      BY <2>1, <2>2
  <1>8. c["branch_targets_plausible"] + c["branch_targets_payload_or_unknown"] =
            c["branch_targets_scanned"] + c["branch_targets_skipped"]
    <2>. DEFINE Yes(n) == n["branch_targets_plausible"]
                Maybe(n) == n["branch_targets_payload_or_unknown"]
                In(n) == n["branch_targets_scanned"]
                Out(n) == n["branch_targets_skipped"]
    <2>1. /\ Yes(a) \in Nat /\ Maybe(a) \in Nat /\ In(a) \in Nat /\ Out(a) \in Nat
          /\ Yes(b) \in Nat /\ Maybe(b) \in Nat /\ In(b) \in Nat /\ Out(b) \in Nat
          /\ Yes(c) = Yes(a) + Yes(b) /\ Maybe(c) = Maybe(a) + Maybe(b)
          /\ In(c) = In(a) + In(b) /\ Out(c) = Out(a) + Out(b)
      BY DEF Counter
    <2>2. /\ Yes(a) + Maybe(a) = In(a) + Out(a)
          /\ Yes(b) + Maybe(b) = In(b) + Out(b)
      BY DEF AddsUp
    <2>. HIDE DEF Yes, Maybe, In, Out
    <2>3. Yes(c) + Maybe(c) = In(c) + Out(c)
      BY <2>1, <2>2
    <2>. QED
      BY <2>3 DEF Yes, Maybe, In, Out
  <1>9. c["branch_display_lists"] =
            c["branch_targets_considered"] + c["cycle_references"] +
            (x + y)
    <2>1. \A d \in {"branch_display_lists", "branch_targets_considered",
            "cycle_references"} :
              a[d] \in Nat /\ b[d] \in Nat /\ c[d] = a[d] + b[d]
      BY DEF Counter
    <2>2. /\ a["branch_display_lists"] =
                  a["branch_targets_considered"] + a["cycle_references"]
                  + x
          /\ b["branch_display_lists"] =
                  b["branch_targets_considered"] + b["cycle_references"]
                  + y
      BY DEF AddsUp
    <2>. QED
      BY <2>1, <2>2
  <1>. QED
    BY <1>1, <1>2, <1>3, <1>4, <1>5, <1>6, <1>7, <1>8, <1>9 DEF AddsUp

LEMMA PlusAdds ==
    ASSUME NEW n \in [Counter -> Nat], NEW x \in Nat, AddsUp(n, x),
           NEW names, NEW y \in Nat, Adds(names, y)
    PROVE  AddsUp(Plus(n, names), x + y)
  <1>1. \A c \in Counter : /\ n[c] \in Nat /\ Ones(names)[c] \in Nat
                           /\ Plus(n, names)[c] = n[c] + Ones(names)[c]
    BY DEF Plus, Ones
  <1>. QED
    BY <1>1, SumAdds DEF Adds

LEMMA UnionAdds ==
    ASSUME NEW A, NEW x \in Nat, Adds(A, x), NEW B, NEW y \in Nat, Adds(B, y),
           A \cap B = {}
    PROVE  Adds(A \cup B, x + y)
  <1>1. \A c \in Counter : /\ Ones(A)[c] \in Nat /\ Ones(B)[c] \in Nat
                           /\ Ones(A \cup B)[c] = Ones(A)[c] + Ones(B)[c]
    BY DEF Ones
  <1>. QED
    BY <1>1, SumAdds DEF Adds

(* The sets of names that add up, by what they are about. *)
CommandNames == {"commands_scanned", "rsp_commands", "rdp_commands"}
PacketNames == {"backend_packets", "backend_geometry_packets",
                "backend_state_packets", "backend_texture_packets",
                "backend_target_packets", "backend_sync_packets"}
ReferenceNames == {"backend_address_refs", "backend_valid_refs",
                   "backend_invalid_refs", "backend_backed_refs",
                   "backend_unbacked_refs"}
ImageNames == {"texture_image_raw_candidates",
               "texture_image_real_dl_commands",
               "texture_image_malformed_dl_commands",
               "texture_image_payload_false_positives",
               "texture_image_real_backed", "texture_image_real_unbacked"}
BranchNames == {"branch_display_lists", "branch_targets_considered",
                "branch_targets_plausible",
                "branch_targets_payload_or_unknown",
                "branch_targets_untranslated", "branch_targets_scanned",
                "branch_targets_skipped", "cycle_references"}
OtherNames == {"branch_commands_scanned", "enddl_commands",
               "display_lists_scanned", "segmented_references",
               "resolved_segmented_references", "unresolved_references"}

Packets(P) ==
    P = {} \/ \E class \in PacketNames \ {"backend_packets"} :
                  P = {"backend_packets", class}

References(R) ==
    \/ R = {}
    \/ R = {"backend_address_refs", "backend_invalid_refs"}
    \/ R = {"backend_address_refs", "backend_valid_refs",
            "backend_backed_refs"}
    \/ R = {"backend_address_refs", "backend_valid_refs",
            "backend_unbacked_refs"}

Images(T) ==
    \/ T = {}
    \/ T = {"texture_image_raw_candidates",
            "texture_image_payload_false_positives"}
    \/ T = {"texture_image_raw_candidates",
            "texture_image_malformed_dl_commands"}
    \/ T = {"texture_image_raw_candidates", "texture_image_real_dl_commands",
            "texture_image_real_backed"}
    \/ T = {"texture_image_raw_candidates", "texture_image_real_dl_commands",
            "texture_image_real_unbacked"}

(* Every way to judge a branch. *)
Judged(B, deep) ==
    \/ B = {} /\ deep = 0
    \/ B = {"branch_display_lists"} /\ deep = 1
    \/ B = {"branch_display_lists", "cycle_references"} /\ deep = 0
    \/ B = {"branch_display_lists", "branch_targets_considered",
            "branch_targets_untranslated"} /\ deep = 0
    \/ B = {"branch_display_lists", "branch_targets_considered",
            "branch_targets_plausible", "branch_targets_scanned"} /\ deep = 0
    \/ \E end \in {"branch_targets_scanned", "branch_targets_skipped"} :
          /\ B = {"branch_display_lists", "branch_targets_considered",
                  "branch_targets_payload_or_unknown", end}
          /\ deep = 0

LEMMA PartsAdd ==
    /\ \A kind \in {"rsp_commands", "rdp_commands"} :
           Adds({"commands_scanned", kind}, 0)
    /\ \A P : Packets(P) => Adds(P, 0) /\ P \subseteq PacketNames
    /\ \A R : References(R) => Adds(R, 0) /\ R \subseteq ReferenceNames
    /\ \A T : Images(T) => Adds(T, 0) /\ T \subseteq ImageNames
    /\ \A B, deep : Judged(B, deep) =>
           Adds(B, deep) /\ B \subseteq BranchNames /\ deep \in Nat
    /\ \A N \in SUBSET OtherNames : Adds(N, 0)
  <1>1. ASSUME NEW kind \in {"rsp_commands", "rdp_commands"}
        PROVE  Adds({"commands_scanned", kind}, 0)
    BY <1>1 DEF Adds, AddsUp, Ones, Counter
  <1>2. ASSUME NEW P, Packets(P)
        PROVE  Adds(P, 0) /\ P \subseteq PacketNames
    BY <1>2 DEF Adds, AddsUp, Ones, Counter, Packets, PacketNames
  <1>3. ASSUME NEW R, References(R)
        PROVE  Adds(R, 0) /\ R \subseteq ReferenceNames
    BY <1>3 DEF Adds, AddsUp, Ones, Counter, References, ReferenceNames
  <1>4. ASSUME NEW T, Images(T)
        PROVE  Adds(T, 0) /\ T \subseteq ImageNames
    BY <1>4 DEF Adds, AddsUp, Ones, Counter, Images, ImageNames
  <1>5. ASSUME NEW B, NEW deep, Judged(B, deep)
        PROVE  Adds(B, deep) /\ B \subseteq BranchNames /\ deep \in Nat
    BY <1>5 DEF Adds, AddsUp, Ones, Counter, Judged, BranchNames
  <1>6. ASSUME NEW N \in SUBSET OtherNames
        PROVE  Adds(N, 0)
    BY <1>6 DEF Adds, AddsUp, Ones, Counter, OtherNames
  <1>. QED
    BY <1>1, <1>2, <1>3, <1>4, <1>5, <1>6

LEMMA ReferenceIs ==
    ASSUME NEW operand, NEW segments
    PROVE  References(Reference(operand, segments))
  BY DEF Reference, References

LEMMA PacketIs == ASSUME NEW op PROVE Packets(Packet(op))
  BY DEF Packet, Packets, PacketNames

LEMMA TextureImageIs ==
    ASSUME NEW cmd, NEW cell, NEW segments
    PROVE  \E P, R, T : /\ Packets(P) /\ References(R) /\ Images(T)
                        /\ TextureImage(cmd, cell, segments) = P \cup R \cup T
  <1>. DEFINE R == Reference(cmd.to, segments)
              real(kind) == {"texture_image_raw_candidates",
                             "texture_image_real_dl_commands", kind}
  <1>0. Packets({}) /\ References({})
    BY DEF Packets, References
  <1>1. CASE ~InListNeighborhood(cell)
    <2>. DEFINE T == {"texture_image_raw_candidates",
                      "texture_image_payload_false_positives"}
    <2>1. TextureImage(cmd, cell, segments) = {} \cup {} \cup T
      BY <1>1 DEF TextureImage
    <2>2. Images(T)
      BY DEF Images
    <2>. QED
      BY <1>0, <2>1, <2>2
  <1>2. CASE InListNeighborhood(cell) /\ ~cmd.ok
    <2>. DEFINE T == {"texture_image_raw_candidates",
                      "texture_image_malformed_dl_commands"}
    <2>1. TextureImage(cmd, cell, segments) = {} \cup {} \cup T
      BY <1>2 DEF TextureImage
    <2>2. Images(T)
      BY DEF Images
    <2>. QED
      BY <1>0, <2>1, <2>2
  <1>3. CASE InListNeighborhood(cell) /\ cmd.ok
    <2>. DEFINE P == {"backend_packets", "backend_texture_packets"}
    <2>1. Packets(P) /\ References(R)
      BY ReferenceIs DEF Packets, PacketNames
    <2>2. \E kind \in {"texture_image_real_backed",
                       "texture_image_real_unbacked"} :
              TextureImage(cmd, cell, segments) = P \cup R \cup real(kind)
      BY <1>3 DEF TextureImage
    <2>3. \A kind \in {"texture_image_real_backed",
                       "texture_image_real_unbacked"} : Images(real(kind))
      BY DEF Images
    <2>. QED
      BY <2>1, <2>2, <2>3
  <1>. QED
    BY <1>1, <1>2, <1>3

LEMMA ClassifiedIs ==
    ASSUME NEW cmd, NEW cell, NEW segments
    PROVE  \E kind \in {"rsp_commands", "rdp_commands"} : \E P, R, T :
               /\ Packets(P) /\ References(R) /\ Images(T)
               /\ Classified(cmd, cell, segments) = {kind} \cup P \cup R \cup T
  <1>. DEFINE kind == IF cmd.op \in Rdp THEN "rdp_commands" ELSE "rsp_commands"
  <1>1. kind \in {"rsp_commands", "rdp_commands"} /\ Packets({})
        /\ References({}) /\ Images({})
    BY DEF Packets, References, Images
  <1>2. CASE cmd.op \in {"vertex", "target"}
    <2>1. Classified(cmd, cell, segments) =
              {kind} \cup Packet(cmd.op) \cup Reference(cmd.to, segments) \cup {}
      BY <1>2 DEF Classified
    <2>. QED
      BY <1>1, <2>1, PacketIs, ReferenceIs
  <1>3. CASE cmd.op = "image"
    <2>1. Packet(cmd.op) = {}
      BY <1>3 DEF Packet
    <2>2. Classified(cmd, cell, segments) =
              {kind} \cup TextureImage(cmd, cell, segments)
      BY <1>3, <2>1 DEF Classified
    <2>3. PICK P, R, T : /\ Packets(P) /\ References(R) /\ Images(T)
                         /\ TextureImage(cmd, cell, segments) = P \cup R \cup T
      BY TextureImageIs
    <2>4. Classified(cmd, cell, segments) = {kind} \cup P \cup R \cup T
      BY <2>2, <2>3
    <2>. QED
      BY <1>1, <2>3, <2>4
  <1>4. CASE cmd.op \notin {"vertex", "target", "image"}
    <2>1. Classified(cmd, cell, segments) = {kind} \cup Packet(cmd.op) \cup {} \cup {}
      BY <1>4 DEF Classified
    <2>. QED
      BY <1>1, <2>1, PacketIs
  <1>. QED
    BY <1>2, <1>3, <1>4

LEMMA BranchIs ==
    ASSUME NEW operand, NEW segments, env.payload \in BOOLEAN,
           NEW verdict, verdict = Verdict(operand, segments)
    PROVE  \E B, N : /\ Judged(B, IF verdict = "deep" THEN 1 ELSE 0)
                     /\ N \in SUBSET OtherNames
                     /\ Branch(operand, segments, verdict) = B \cup N
  <1>. DEFINE S == IF operand.space # "segment" THEN {}
                   ELSE {"segmented_references"} \cup
                        (IF Resolves(operand, segments)
                         THEN {"resolved_segmented_references"} ELSE {})
              of(B, N) == /\ Judged(B, IF verdict = "deep" THEN 1 ELSE 0)
                          /\ N \in SUBSET OtherNames
                          /\ Branch(operand, segments, verdict) = B \cup N
  <1>1. S \in SUBSET OtherNames
    BY DEF OtherNames
  <1>2. verdict \in {"untranslated", "cycle", "deep", "plausible", "payload"}
    BY DEF Verdict
  <1>. HIDE DEF S
  <1>3. Branch(operand, segments, verdict) =
            {"branch_display_lists"} \cup S
            \cup (CASE verdict = "untranslated" ->
                          {"unresolved_references", "branch_targets_considered",
                           "branch_targets_untranslated"}
                    [] verdict = "cycle" -> {"cycle_references"}
                    [] verdict = "deep" -> {}
                    [] verdict = "plausible" ->
                          {"branch_targets_considered",
                           "branch_targets_plausible"}
                    [] verdict = "payload" ->
                          {"branch_targets_considered",
                           "branch_targets_payload_or_unknown"})
            \cup (IF Scheduled(verdict) THEN {"branch_targets_scanned"} ELSE {})
            \cup (IF verdict = "payload" /\ ~env.payload
                  THEN {"branch_targets_skipped"} ELSE {})
    BY Zenon DEF Branch, S
  <1>4. CASE verdict = "untranslated"
    <2>1. of({"branch_display_lists", "branch_targets_considered",
              "branch_targets_untranslated"}, S \cup {"unresolved_references"})
      BY <1>1, <1>3, <1>4 DEF Judged, OtherNames, Scheduled
    <2>. QED
      BY <2>1
  <1>5. CASE verdict = "cycle"
    <2>1. of({"branch_display_lists", "cycle_references"}, S)
      BY <1>1, <1>3, <1>5 DEF Judged, Scheduled
    <2>. QED
      BY <2>1
  <1>6. CASE verdict = "deep"
    <2>1. of({"branch_display_lists"}, S)
      BY <1>1, <1>3, <1>6 DEF Judged, Scheduled
    <2>. QED
      BY <2>1
  <1>7. CASE verdict = "plausible"
    <2>1. of({"branch_display_lists", "branch_targets_considered",
              "branch_targets_plausible", "branch_targets_scanned"}, S)
      BY <1>1, <1>3, <1>7 DEF Judged, Scheduled
    <2>. QED
      BY <2>1
  <1>8. CASE verdict = "payload" /\ env.payload
    <2>1. of({"branch_display_lists", "branch_targets_considered",
              "branch_targets_payload_or_unknown", "branch_targets_scanned"}, S)
      BY <1>1, <1>3, <1>8 DEF Judged, Scheduled
    <2>. QED
      BY <2>1
  <1>9. CASE verdict = "payload" /\ ~env.payload
    <2>1. of({"branch_display_lists", "branch_targets_considered",
              "branch_targets_payload_or_unknown", "branch_targets_skipped"}, S)
      BY <1>1, <1>3, <1>9 DEF Judged, Scheduled
    <2>. QED
      BY <2>1
  <1>. QED
    BY <1>2, <1>4, <1>5, <1>6, <1>7, <1>8, <1>9

(* What a command counts adds up; a branch beyond the depth is the one that is
   judged in no way. *)
LEMMA CommandAdds ==
    ASSUME ScanInv, WalkCommand
    PROVE  Adds(CmdNames, IF CmdVerdict = "deep" THEN 1 ELSE 0)
  <1>. DEFINE deep == IF CmdVerdict = "deep" THEN 1 ELSE 0
  <1>1. env.payload \in BOOLEAN
    BY Types DEF ScanInv
  <1>0. PICK kind \in {"rsp_commands", "rdp_commands"} : \E P, R, T :
            /\ Packets(P) /\ References(R) /\ Images(T)
            /\ Classified(Cmd, Top.at, CmdSegments) = {kind} \cup P \cup R \cup T
    BY ClassifiedIs
  <1>2. PICK P, R, T :
            /\ Packets(P) /\ References(R) /\ Images(T)
            /\ Classified(Cmd, Top.at, CmdSegments) = {kind} \cup P \cup R \cup T
    BY <1>0
  <1>3. \E B, N : /\ Judged(B, deep) /\ N \in SUBSET OtherNames
                  /\ (IF Cmd.op = "branch"
                      THEN Branch(Cmd.to, CmdSegments, CmdVerdict) ELSE {})
                     = B \cup N
    <2>1. CASE Cmd.op = "branch"
      <3>1. CmdVerdict = Verdict(Cmd.to, CmdSegments)
        BY <2>1 DEF CmdVerdict
      <3>. QED
        BY <1>1, <2>1, <3>1, BranchIs
    <2>2. CASE Cmd.op # "branch"
      <3>1. Judged({}, deep)
        BY <2>2 DEF CmdVerdict, Judged
      <3>. QED
        BY <2>2, <3>1
    <2>. QED
      BY <2>1, <2>2
  <1>4. PICK B, N : /\ Judged(B, deep) /\ N \in SUBSET OtherNames
                    /\ (IF Cmd.op = "branch"
                        THEN Branch(Cmd.to, CmdSegments, CmdVerdict) ELSE {})
                       = B \cup N
    BY <1>3
  <1>. DEFINE C == {"commands_scanned", kind}
              M == N \cup (IF Depth > 0 THEN {"branch_commands_scanned"} ELSE {})
                     \cup (IF Cmd.op = "end" THEN {"enddl_commands"} ELSE {})
  <1>5. CmdNames = ((((C \cup P) \cup R) \cup T) \cup B) \cup M
    BY <1>2, <1>4 DEF CmdNames
  <1>6. M \in SUBSET OtherNames
    BY <1>4 DEF OtherNames
  <1>. HIDE DEF M, deep
  <1>7. /\ Adds(C, 0) /\ Adds(P, 0) /\ Adds(R, 0) /\ Adds(T, 0)
        /\ Adds(B, deep) /\ Adds(M, 0) /\ deep \in Nat
        /\ P \subseteq PacketNames /\ R \subseteq ReferenceNames
        /\ T \subseteq ImageNames /\ B \subseteq BranchNames
    BY <1>2, <1>4, <1>6, PartsAdd
  <1>8. C \subseteq CommandNames
    BY DEF CommandNames
  <1>. HIDE DEF C
  <1>9. /\ C \cap P = {} /\ (C \cup P) \cap R = {}
        /\ ((C \cup P) \cup R) \cap T = {}
        /\ (((C \cup P) \cup R) \cup T) \cap B = {}
        /\ ((((C \cup P) \cup R) \cup T) \cup B) \cap M = {}
    <2>1. /\ CommandNames \cap PacketNames = {}
          /\ (CommandNames \cup PacketNames) \cap ReferenceNames = {}
          /\ (CommandNames \cup PacketNames \cup ReferenceNames)
                \cap ImageNames = {}
          /\ (CommandNames \cup PacketNames \cup ReferenceNames
                 \cup ImageNames) \cap BranchNames = {}
          /\ (CommandNames \cup PacketNames \cup ReferenceNames \cup ImageNames
                 \cup BranchNames) \cap OtherNames = {}
      BY DEF CommandNames, PacketNames, ReferenceNames, ImageNames,
             BranchNames, OtherNames
    <2>. QED
      BY <1>6, <1>7, <1>8, <2>1
  <1>10. Adds(C \cup P, 0)
    <2>1. Adds(C \cup P, 0 + 0)
      BY <1>7, <1>9, UnionAdds
    <2>. QED
      BY <2>1
  <1>11. Adds((C \cup P) \cup R, 0)
    <2>1. Adds((C \cup P) \cup R, 0 + 0)
      BY <1>7, <1>9, <1>10, UnionAdds
    <2>. QED
      BY <2>1
  <1>12. Adds(((C \cup P) \cup R) \cup T, 0)
    <2>1. Adds(((C \cup P) \cup R) \cup T, 0 + 0)
      BY <1>7, <1>9, <1>11, UnionAdds
    <2>. QED
      BY <2>1
  <1>13. Adds((((C \cup P) \cup R) \cup T) \cup B, deep)
    <2>1. Adds((((C \cup P) \cup R) \cup T) \cup B, 0 + deep)
      BY <1>7, <1>9, <1>12, UnionAdds
    <2>. QED
      BY <1>7, <2>1
  <1>14. Adds(CmdNames, deep)
    <2>1. Adds(CmdNames, deep + 0)
      BY <1>5, <1>7, <1>9, <1>13, UnionAdds
    <2>. QED
      BY <1>7, <2>1
  <1>. QED
    BY <1>14 DEF deep

(* The counters of a step that counts nothing but one of the other names. *)
LEMMA OtherAdds ==
    ASSUME result \in [Counter -> Nat], CountsAddUp, hit' = hit,
           NEW c \in OtherNames, result' = Plus(result, {c})
    PROVE  CountsAddUp'
  <1>. DEFINE x == IF "depth" \in hit THEN 1 ELSE 0
  <1>1. Adds({c}, 0)
    BY PartsAdd
  <1>2. x \in Nat /\ AddsUp(result, x) /\ x' = x
    BY DEF CountsAddUp
  <1>. HIDE DEF x
  <1>3. AddsUp(result', x + 0)
    BY <1>1, <1>2, PlusAdds
  <1>. QED
    BY <1>2, <1>3 DEF CountsAddUp, x

(* Every step counts what adds up. *)
LEMMA ReportStep ==
    ASSUME ScanInv, NewLists, CountsAddUp, [Next]_vars
    PROVE  CountsAddUp'
  <1>1. result \in [Counter -> Nat]
    BY Types DEF ScanInv
  <1>2. CASE UNCHANGED <<result, hit>>
    BY <1>2 DEF CountsAddUp
  <1>3. CASE Refuse
    <2>1. hit' = hit /\ "unresolved_references" \in OtherNames
      BY <1>3, RefusedIs DEF OtherNames
    <2>2. CASE result' = result
      BY <1>2, <2>1, <2>2
    <2>3. CASE result' = Plus(result, {"unresolved_references"})
      BY <1>1, <2>1, <2>3, OtherAdds
    <2>. QED
      BY <1>3, <2>2, <2>3, RefusedIs
  <1>4. CASE Enter
    BY <1>1, <1>4, EnterIs, OtherAdds DEF OtherNames
  <1>5. CASE StopAtLimit
    BY <1>5 DEF StopAtLimit, CountsAddUp
  <1>6. CASE StopAtEnd
    <2>1. hit' = hit /\ "unresolved_references" \in OtherNames
      BY <1>6 DEF StopAtEnd, OtherNames
    <2>2. CASE result' = result
      BY <1>2, <2>1, <2>2
    <2>3. CASE result' = Plus(result, {"unresolved_references"})
      BY <1>1, <2>1, <2>3, OtherAdds
    <2>. QED
      BY <1>6, <2>2, <2>3 DEF StopAtEnd
  <1>7. CASE WalkCommand
    <2>. DEFINE y == IF CmdVerdict = "deep" THEN 1 ELSE 0
                x == IF "depth" \in hit THEN 1 ELSE 0
    <2>1. Adds(CmdNames, y) /\ y \in Nat
      BY <1>7, CommandAdds
    <2>2. /\ result' = Plus(result, CmdNames) /\ ~Aborted
          /\ hit' = IF CmdVerdict = "deep" THEN hit \cup {"depth"} ELSE hit
      BY <1>7, CommandIs
    <2>3. x = 0 /\ x' = y
      BY <2>2 DEF Aborted
    <2>. HIDE DEF y
    <2>4. AddsUp(result', 0 + y)
      BY <1>1, <2>1, <2>2, <2>3, PlusAdds DEF CountsAddUp
    <2>. QED
      BY <2>1, <2>3, <2>4 DEF CountsAddUp
  <1>8. CASE StopOnAbort \/ CallBranch \/ Return \/ Finished \/ UNCHANGED vars
    BY <1>2, <1>8
    DEF StopOnAbort, CallBranch, Return, Finished, vars
  <1>. QED
    BY <1>3, <1>4, <1>5, <1>6, <1>7, <1>8 DEF Next

(* The report adds up at every moment of every walk, limits and refusals
   included. *)
THEOREM ReportAddsUp == Spec => []CountsAddUp
  <1>1. Init => CountsAddUp
    BY DEF Init, CountsAddUp, AddsUp, Counter
  <1>. QED
    BY <1>1, ReportStep, NewListsInvariant, PTL DEF Spec
-----------------------------------------------------------------------------
(* What is left to do.  Both sums run over the frames of a stack s: the
   branches that wait, and the work that may still come of them. *)
Sizes(s) == [k \in DOMAIN s |-> Len(s[k].targets)]

Works(s) == [k \in DOMAIN s |-> FrameWork(s[k])]

Waiting(s) == SumFunction(Sizes(s))

Load(s) == SumFunction(Works(s))

LEMMA FrameSizes ==
    ASSUME NEW f \in Frame
    PROVE  /\ Len(f.targets) \in Nat /\ f.walking \in BOOLEAN
           /\ FrameWork(f) \in Nat /\ FrameWork(f) >= 1
  <1>1. f.targets \in Seq(Target) /\ f.walking \in BOOLEAN
    BY DEF Frame, Target
  <1>. DEFINE c == Len(f.targets)
              d == IF f.walking THEN 2 ELSE 1
  <1>2. c \in Nat /\ d \in Nat /\ d >= 1
    BY <1>1, LenProperties
  <1>3. FrameWork(f) = 4 * c + d
    BY DEF FrameWork
  <1>. HIDE DEF c, d
  <1>4. 4 * c + d \in Nat /\ 4 * c + d >= 1
    BY <1>2
  <1>. QED
    BY <1>1, <1>2, <1>3, <1>4 DEF c

LEMMA FrameSums ==
    ASSUME NEW s \in Seq(Frame)
    PROVE  /\ Len(s) \in Nat /\ IsFiniteSet(1..Len(s))
           /\ Sizes(s) \in [1..Len(s) -> Nat] /\ Works(s) \in [1..Len(s) -> Nat]
           /\ Waiting(s) \in Nat /\ Load(s) \in Nat
           /\ \A k \in 1..Len(s) : /\ Sizes(s)[k] = Len(s[k].targets)
                                   /\ Works(s)[k] = FrameWork(s[k])
  <1>1. Len(s) \in Nat /\ DOMAIN s = 1..Len(s) /\ IsFiniteSet(1..Len(s))
    BY LenProperties, FS_Interval
  <1>2. \A k \in 1..Len(s) : Len(s[k].targets) \in Nat /\ FrameWork(s[k]) \in Nat
    BY ElementOfSeq, FrameSizes
  <1>3. /\ Sizes(s) \in [1..Len(s) -> Nat] /\ Works(s) \in [1..Len(s) -> Nat]
        /\ \A k \in 1..Len(s) : /\ Sizes(s)[k] = Len(s[k].targets)
                                /\ Works(s)[k] = FrameWork(s[k])
    BY <1>1, <1>2 DEF Sizes, Works
  <1>4. Waiting(s) \in Nat /\ Load(s) \in Nat
    BY <1>1, <1>3, FunctionSumNat DEF Waiting, Load
  <1>. QED
    BY <1>1, <1>3, <1>4

(* One frame becomes another one. *)
LEMMA SumsChange ==
    ASSUME NEW s \in Seq(Frame), NEW t \in Seq(Frame), Len(t) = Len(s),
           NEW n \in 1..Len(s), \A k \in 1..Len(s) : k # n => t[k] = s[k]
    PROVE  /\ Waiting(t) = Waiting(s) + Len(t[n].targets) - Len(s[n].targets)
           /\ Load(t) = Load(s) + FrameWork(t[n]) - FrameWork(s[n])
  <1>. DEFINE S == 1..Len(s)
  <1>1. /\ IsFiniteSet(S) /\ Sizes(s) \in [S -> Nat] /\ Works(s) \in [S -> Nat]
        /\ \A k \in S : Sizes(s)[k] = Len(s[k].targets)
        /\ \A k \in S : Works(s)[k] = FrameWork(s[k])
    BY FrameSums
  <1>2. /\ Sizes(t) \in [S -> Nat] /\ Works(t) \in [S -> Nat]
        /\ \A k \in S : Sizes(t)[k] = Len(t[k].targets)
        /\ \A k \in S : Works(t)[k] = FrameWork(t[k])
    BY FrameSums
  <1>3. n \in S /\ \A k \in S : k # n => t[k] = s[k]
    OBVIOUS
  <1>. HIDE DEF S
  <1>4. \A k \in S \ {n} : Sizes(t)[k] = Sizes(s)[k]
    BY <1>1, <1>2, <1>3
  <1>5. \A k \in S \ {n} : Works(t)[k] = Works(s)[k]
    BY <1>1, <1>2, <1>3
  <1>a. IsFiniteSet(S) /\ n \in S
    BY <1>1, <1>3
  <1>b. Sizes(s) \in [S -> Nat] /\ Sizes(t) \in [S -> Nat]
    BY <1>1, <1>2
  <1>c. Works(s) \in [S -> Nat] /\ Works(t) \in [S -> Nat]
    BY <1>1, <1>2
  <1>6. Waiting(t) = Waiting(s) + Sizes(t)[n] - Sizes(s)[n]
    BY <1>4, <1>a, <1>b, FunctionSumChange DEF Waiting
  <1>7. Load(t) = Load(s) + Works(t)[n] - Works(s)[n]
    BY <1>5, <1>a, <1>c, FunctionSumChange DEF Load
  <1>. QED
    BY <1>1, <1>2, <1>3, <1>6, <1>7

(* A frame more on top. *)
LEMMA SumsMore ==
    ASSUME NEW s \in Seq(Frame), NEW t \in Seq(Frame), Len(t) = Len(s) + 1,
           \A k \in 1..Len(s) : t[k] = s[k]
    PROVE  /\ Waiting(t) = Waiting(s) + Len(t[Len(t)].targets)
           /\ Load(t) = Load(s) + FrameWork(t[Len(t)])
  <1>. DEFINE S == 1..Len(s)
              T == 1..Len(t)
              x == Len(t)
  <1>1. /\ IsFiniteSet(S) /\ Len(s) \in Nat
        /\ Sizes(s) \in [S -> Nat] /\ Works(s) \in [S -> Nat]
        /\ \A k \in S : Sizes(s)[k] = Len(s[k].targets)
        /\ \A k \in S : Works(s)[k] = FrameWork(s[k])
    BY FrameSums
  <1>2. /\ Sizes(t) \in [T -> Nat] /\ Works(t) \in [T -> Nat]
        /\ \A k \in T : Sizes(t)[k] = Len(t[k].targets)
        /\ \A k \in T : Works(t)[k] = FrameWork(t[k])
    BY FrameSums
  <1>3. x \notin S /\ x \in T /\ T = S \cup {x}
    BY <1>1
  <1>4. \A k \in S : t[k] = s[k]
    OBVIOUS
  <1>. HIDE DEF S, T, x
  <1>5. \A k \in S : Sizes(t)[k] = Sizes(s)[k]
    BY <1>1, <1>2, <1>3, <1>4
  <1>6. \A k \in S : Works(t)[k] = Works(s)[k]
    BY <1>1, <1>2, <1>3, <1>4
  <1>a. Sizes(s) \in [S -> Nat] /\ Sizes(t) \in [T -> Nat] /\ IsFiniteSet(S)
    BY <1>1, <1>2
  <1>b. Works(s) \in [S -> Nat] /\ Works(t) \in [T -> Nat] /\ IsFiniteSet(S)
    BY <1>1, <1>2
  <1>c. x \notin S /\ x \in T /\ T = S \cup {x} /\ IsFiniteSet(S)
    BY <1>1, <1>3
  <1>7. Waiting(t) = Waiting(s) + Sizes(t)[x]
    BY <1>5, <1>a, <1>c, FunctionSumMore, SMTT(20) DEF Waiting
  <1>8. Load(t) = Load(s) + Works(t)[x]
    BY <1>6, <1>b, <1>c, FunctionSumMore, SMTT(20) DEF Load
  <1>9. Sizes(t)[x] = Len(t[x].targets) /\ Works(t)[x] = FrameWork(t[x])
    BY <1>2, <1>3
  <1>. QED
    BY <1>7, <1>8, <1>9 DEF x
-----------------------------------------------------------------------------
(* The counts of lists walked and of branches scheduled. *)
ListsWalked == result["display_lists_scanned"]

Scheduling == result["branch_targets_scanned"]

Called(c) == IF c = NoCall THEN 0 ELSE 1

LEMMA CountsAre ==
    ASSUME TypeOK
    PROVE  /\ ListsWalked \in Nat /\ Scheduling \in Nat /\ Scanned \in Nat
           /\ env.commands \in Nat
           /\ Waiting(stack) \in Nat /\ Load(stack) \in Nat
           /\ stack = <<>> => Waiting(stack) = 0
  <1>1. /\ result \in [Counter -> Nat] /\ stack \in Seq(Frame) /\ Scanned \in Nat
        /\ env.commands \in Nat
    BY Types
  <1>2. ListsWalked \in Nat /\ Scheduling \in Nat
    BY <1>1 DEF ListsWalked, Scheduling, Counter
  <1>3. Waiting(stack) \in Nat /\ Load(stack) \in Nat
    BY <1>1, FrameSums
  <1>4. ASSUME stack = <<>> PROVE Waiting(stack) = 0
    <2>1. DOMAIN Sizes(stack) = {}
      BY <1>4 DEF Sizes
    <2>. QED
      BY <2>1, SumOfNone DEF Waiting, SumFunction
  <1>. QED
    BY <1>1, <1>2, <1>3, <1>4

(* The names that count them: a step that counts neither leaves both. *)
LEMMA CountsMove ==
    ASSUME TypeOK, NEW names, result' = Plus(result, names)
    PROVE  /\ ListsWalked' = ListsWalked +
                 (IF "display_lists_scanned" \in names THEN 1 ELSE 0)
           /\ Scheduling' = Scheduling +
                 (IF "branch_targets_scanned" \in names THEN 1 ELSE 0)
  <1>1. /\ "display_lists_scanned" \in Counter
        /\ "branch_targets_scanned" \in Counter
    BY DEF Counter
  <1>. QED
    BY <1>1 DEF Plus, ListsWalked, Scheduling

(* A step that counts at most an unresolved reference. *)
LEMMA OtherCounts ==
    ASSUME TypeOK, \/ result' = result
                   \/ result' = Plus(result, {"unresolved_references"})
    PROVE  ListsWalked' = ListsWalked /\ Scheduling' = Scheduling
           /\ Scanned' = Scanned
  <1>. DEFINE names == {"unresolved_references"}
  <1>1. CASE result' = result
    BY <1>1 DEF ListsWalked, Scheduling, Scanned
  <1>2. CASE result' = Plus(result, names)
    <2>1. /\ "display_lists_scanned" \notin names
          /\ "branch_targets_scanned" \notin names
          /\ "commands_scanned" \notin names
      OBVIOUS
    <2>. HIDE DEF names
    <2>2. ListsWalked' = ListsWalked + 0 /\ Scheduling' = Scheduling + 0
      BY <1>2, <2>1, CountsMove
    <2>3. result \in [Counter -> Nat] /\ ListsWalked \in Nat /\ Scheduling \in Nat
      BY CountsAre, Types
    <2>4. Scanned' = Scanned
      BY <1>2, <2>1, <2>3, PlusCounts DEF Scanned
    <2>. QED
      BY <2>2, <2>3, <2>4
  <1>. QED
    BY <1>1, <1>2

(* A command counts a branch as scheduled exactly when it schedules it, and
   walks no list. *)
LEMMA CommandCounts ==
    ASSUME ScanInv, WalkCommand
    PROVE  /\ ListsWalked' = ListsWalked
           /\ Scheduling' = Scheduling + (IF Scheduled(CmdVerdict) THEN 1 ELSE 0)
  <1>0. PICK kind \in {"rsp_commands", "rdp_commands"} : \E P, R, T :
            /\ Packets(P) /\ References(R) /\ Images(T)
            /\ Classified(Cmd, Top.at, CmdSegments) = {kind} \cup P \cup R \cup T
    BY ClassifiedIs
  <1>1. PICK P, R, T :
            /\ Packets(P) /\ References(R) /\ Images(T)
            /\ Classified(Cmd, Top.at, CmdSegments) = {kind} \cup P \cup R \cup T
    BY <1>0
  <1>2. \A c \in {"display_lists_scanned", "branch_targets_scanned"} :
            c \notin P /\ c \notin R /\ c \notin T /\ c # kind
    <2>. TAKE c \in {"display_lists_scanned", "branch_targets_scanned"}
    <2>1. c \notin P
      BY <1>1 DEF Packets, PacketNames
    <2>2. c \notin R
      BY <1>1 DEF References
    <2>3. c \notin T
      BY <1>1 DEF Images
    <2>4. c # kind
      BY <1>0
    <2>. QED
      BY <2>1, <2>2, <2>3, <2>4
  <1>3. \A c \in {"display_lists_scanned", "branch_targets_scanned"} :
            c \in CmdNames <=>
                /\ Cmd.op = "branch"
                /\ c \in Branch(Cmd.to, CmdSegments, CmdVerdict)
    BY <1>1, <1>2 DEF CmdNames
  <1>4. ASSUME Cmd.op = "branch"
        PROVE  /\ "display_lists_scanned" \notin
                      Branch(Cmd.to, CmdSegments, CmdVerdict)
               /\ "branch_targets_scanned" \in
                      Branch(Cmd.to, CmdSegments, CmdVerdict)
                      <=> Scheduled(CmdVerdict)
    <2>1. CmdVerdict \in {"untranslated", "cycle", "deep", "plausible", "payload"}
      BY <1>4 DEF CmdVerdict, Verdict
    <2>. QED
      BY <2>1 DEF Branch
  <1>5. Cmd.op # "branch" => ~Scheduled(CmdVerdict)
    BY DEF CmdVerdict, Scheduled
  <1>6. /\ "display_lists_scanned" \notin CmdNames
        /\ "branch_targets_scanned" \in CmdNames <=> Scheduled(CmdVerdict)
    BY <1>3, <1>4, <1>5
  <1>7. result' = Plus(result, CmdNames) /\ TypeOK
    BY CommandIs DEF ScanInv
  <1>8. /\ ListsWalked' = ListsWalked +
               (IF "display_lists_scanned" \in CmdNames THEN 1 ELSE 0)
        /\ Scheduling' = Scheduling +
               (IF "branch_targets_scanned" \in CmdNames THEN 1 ELSE 0)
    BY <1>7, CountsMove
  <1>. QED
    BY <1>6, <1>7, <1>8, CountsAre

(* What each step does to the two sums.  The list on top goes on as f. *)
LEMMA TopSums ==
    ASSUME ScanInv, stack # <<>>, NEW f, f \in Frame,
           stack' = [stack EXCEPT ![Len(stack)] = f]
    PROVE  /\ stack' # <<>>
           /\ Waiting(stack') =
                 Waiting(stack) + Len(f.targets) - Len(Top.targets)
           /\ Load(stack') = Load(stack) + FrameWork(f) - FrameWork(Top)
           /\ Waiting(stack') \in Nat /\ Load(stack') \in Nat
  <1>. DEFINE n == Len(stack)
              t == stack'
  <1>1. stack \in Seq(Frame) /\ n \in 1..n /\ n \in Nat
    BY Types DEF ScanInv
  <1>2. /\ t \in Seq(Frame) /\ Len(t) = n
        /\ \A k \in 1..n : t[k] = IF k = n THEN f ELSE stack[k]
    BY <1>1, ExceptSeq
  <1>3. t # <<>>
    BY <1>1, <1>2, EmptySeq
  <1>4. t[n] = f /\ \A k \in 1..n : k # n => t[k] = stack[k]
    BY <1>1, <1>2
  <1>. HIDE DEF t
  <1>5. /\ Waiting(t) = Waiting(stack) + Len(t[n].targets) - Len(stack[n].targets)
        /\ Load(t) = Load(stack) + FrameWork(t[n]) - FrameWork(stack[n])
    BY <1>1, <1>2, <1>4, SumsChange
  <1>6. Waiting(t) \in Nat /\ Load(t) \in Nat
    BY <1>2, FrameSums
  <1>. QED
    BY <1>3, <1>4, <1>5, <1>6 DEF t, Top

LEMMA StopSums ==
    ASSUME ScanInv, StopWalking, stack # <<>>, Top.walking
    PROVE  /\ stack' # <<>> /\ Waiting(stack') = Waiting(stack)
           /\ Load(stack') = Load(stack) - 1 /\ Load(stack') \in Nat
  <1>. DEFINE f == [Top EXCEPT !.walking = FALSE]
  <1>1. Top \in Frame /\ TypeOK
    BY Types DEF ScanInv
  <1>2. f \in Frame /\ f.targets = Top.targets /\ f.walking = FALSE
    BY <1>1 DEF Frame
  <1>3. stack' = [stack EXCEPT ![Len(stack)] = f]
    BY DEF StopWalking, Top
  <1>. HIDE DEF f
  <1>4. /\ Len(Top.targets) \in Nat /\ Len(f.targets) = Len(Top.targets)
    BY <1>1, <1>2, FrameSizes
  <1>5. FrameWork(f) - FrameWork(Top) = 0 - 1
    BY <1>2, <1>4 DEF FrameWork
  <1>6. FrameWork(f) \in Nat /\ FrameWork(Top) \in Nat
        /\ Waiting(stack) \in Nat /\ Load(stack) \in Nat
    BY <1>1, <1>2, FrameSizes, CountsAre
  <1>7. /\ stack' # <<>> /\ Load(stack') \in Nat
        /\ Waiting(stack') = Waiting(stack) + Len(f.targets) - Len(Top.targets)
        /\ Load(stack') = Load(stack) + FrameWork(f) - FrameWork(Top)
    BY <1>2, <1>3, TopSums
  <1>. QED
    BY <1>4, <1>5, <1>6, <1>7

LEMMA EnterSums ==
    ASSUME ScanInv, Enter
    PROVE  /\ stack' # <<>> /\ Waiting(stack') = Waiting(stack)
           /\ Load(stack') = Load(stack) + 2
  <1>1. /\ stack \in Seq(Frame) /\ Len(stack) \in Nat
        /\ stack' \in Seq(Frame) /\ Len(stack') = Len(stack) + 1
        /\ \A k \in 1..Len(stack) : stack'[k] = stack[k]
        /\ stack'[Len(stack) + 1] = NewFrame /\ stack' # <<>>
        /\ NewFrame.targets = <<>> /\ NewFrame.walking = TRUE
    BY EnterIs
  <1>2. Len(NewFrame.targets) = 0 /\ FrameWork(NewFrame) = 2
    BY <1>1 DEF FrameWork
  <1>3. Waiting(stack) \in Nat /\ Load(stack) \in Nat
    BY <1>1, FrameSums
  <1>4. /\ Waiting(stack') = Waiting(stack) + Len(stack'[Len(stack')].targets)
        /\ Load(stack') = Load(stack) + FrameWork(stack'[Len(stack')])
    <2>. DEFINE t == stack'
    <2>1. /\ t \in Seq(Frame) /\ Len(t) = Len(stack) + 1
          /\ \A k \in 1..Len(stack) : t[k] = stack[k]
      BY <1>1
    <2>. HIDE DEF t
    <2>2. /\ Waiting(t) = Waiting(stack) + Len(t[Len(t)].targets)
          /\ Load(t) = Load(stack) + FrameWork(t[Len(t)])
      BY <1>1, <2>1, SumsMore
    <2>. QED
      BY <2>2 DEF t
  <1>5. stack'[Len(stack')] = NewFrame
    BY <1>1
  <1>. QED
    BY <1>1, <1>2, <1>3, <1>4, <1>5

(* A frame with d more branches that wait. *)
LEMMA FrameWorkMoves ==
    ASSUME NEW f \in Frame, NEW g \in Frame, NEW d \in Int,
           Len(g.targets) = Len(f.targets) + d
    PROVE  /\ g.walking = f.walking => FrameWork(g) = FrameWork(f) + 4 * d
           /\ f.walking => FrameWork(g) <= FrameWork(f) + 4 * d
  <1>. DEFINE a == Len(f.targets)
              b == Len(g.targets)
              v == IF f.walking THEN 2 ELSE 1
              w == IF g.walking THEN 2 ELSE 1
  <1>1. a \in Nat /\ b = a + d
    BY FrameSizes
  <1>2. /\ FrameWork(f) = 4 * a + v /\ FrameWork(g) = 4 * b + w
        /\ v \in {1, 2} /\ w \in {1, 2} /\ (f.walking => v = 2)
        /\ g.walking = f.walking => w = v
    BY DEF FrameWork
  <1>. HIDE DEF a, b, v, w
  <1>3. 4 * b + w = 4 * a + w + 4 * d
    BY <1>1, <1>2
  <1>4. w = v => 4 * b + w = 4 * a + v + 4 * d
    BY <1>3
  <1>5. v = 2 => 4 * b + w <= 4 * a + v + 4 * d
    BY <1>1, <1>2, <1>3
  <1>. QED
    BY <1>2, <1>4, <1>5

LEMMA CommandSums ==
    ASSUME ScanInv, WalkCommand
    PROVE  /\ stack' # <<>>
           /\ Waiting(stack') =
                 Waiting(stack) + (IF Scheduled(CmdVerdict) THEN 1 ELSE 0)
           /\ Load(stack') <= Load(stack) + 4 /\ Load(stack') \in Nat
  <1>. DEFINE more == IF Scheduled(CmdVerdict) THEN 1 ELSE 0
  <1>1. stack # <<>> /\ Top.walking /\ TypeOK
        /\ stack' = [stack EXCEPT ![Len(stack)] = CmdFrame]
    BY CommandIs DEF ScanInv
  <1>2. Top \in Frame /\ CmdFrame \in Frame /\ CmdFrame.targets = CmdTargets
        /\ CmdFrame.walking \in BOOLEAN
    BY CommandFrame
  <1>3. Len(CmdFrame.targets) = Len(Top.targets) + more
        /\ Len(Top.targets) \in Nat
    <2>1. Len(Top.targets) \in Nat
      BY <1>2, FrameSizes
    <2>2. CASE Scheduled(CmdVerdict)
      BY <1>2, <2>1, <2>2, CommandFrame
    <2>3. CASE ~Scheduled(CmdVerdict)
      BY <1>2, <2>1, <2>3, CommandFrame
    <2>. QED
      BY <2>1, <2>2, <2>3
  <1>4. FrameWork(CmdFrame) <= FrameWork(Top) + 4
    <2>1. more \in {0, 1}
      OBVIOUS
    <2>. HIDE DEF more
    <2>2. FrameWork(CmdFrame) <= FrameWork(Top) + 4 * more
      BY <1>1, <1>2, <1>3, <2>1, FrameWorkMoves
    <2>3. FrameWork(CmdFrame) \in Nat /\ FrameWork(Top) \in Nat
      BY <1>2, FrameSizes
    <2>. QED
      BY <2>1, <2>2, <2>3
  <1>5. FrameWork(CmdFrame) \in Nat /\ FrameWork(Top) \in Nat
        /\ Waiting(stack) \in Nat /\ Load(stack) \in Nat
    BY <1>1, <1>2, FrameSizes, CountsAre
  <1>6. /\ stack' # <<>> /\ Load(stack') \in Nat
        /\ Waiting(stack') =
              Waiting(stack) + Len(CmdFrame.targets) - Len(Top.targets)
        /\ Load(stack') = Load(stack) + FrameWork(CmdFrame) - FrameWork(Top)
    BY <1>1, <1>2, TopSums
  <1>. QED
    BY <1>3, <1>4, <1>5, <1>6

LEMMA BranchSums ==
    ASSUME ScanInv, CallBranch
    PROVE  /\ stack' # <<>> /\ Waiting(stack') = Waiting(stack) - 1
           /\ Load(stack') = Load(stack) - 4 /\ Load(stack') \in Nat
  <1>1. /\ stack # <<>> /\ TypeOK /\ Top \in Frame /\ BranchFrame \in Frame
        /\ stack' = [stack EXCEPT ![Len(stack)] = BranchFrame]
        /\ Len(BranchFrame.targets) = Len(Top.targets) - 1
        /\ BranchFrame.walking = Top.walking
    BY CallBranchIs DEF ScanInv
  <1>2. Len(Top.targets) \in Nat /\ Len(BranchFrame.targets) \in Nat
    BY <1>1, FrameSizes
  <1>3. FrameWork(BranchFrame) = FrameWork(Top) - 4
    <2>. DEFINE d == 0 - 1
    <2>1. Len(BranchFrame.targets) = Len(Top.targets) + d /\ d \in Int
      BY <1>1, <1>2
    <2>. HIDE DEF d
    <2>2. FrameWork(BranchFrame) = FrameWork(Top) + 4 * d
      BY <1>1, <2>1, FrameWorkMoves
    <2>3. FrameWork(Top) \in Nat
      BY <1>1, FrameSizes
    <2>. QED
      BY <2>2, <2>3 DEF d
  <1>4. FrameWork(BranchFrame) \in Nat /\ FrameWork(Top) \in Nat
        /\ Waiting(stack) \in Nat /\ Load(stack) \in Nat
    BY <1>1, FrameSizes, CountsAre
  <1>5. /\ stack' # <<>> /\ Load(stack') \in Nat
        /\ Waiting(stack') =
              Waiting(stack) + Len(BranchFrame.targets) - Len(Top.targets)
        /\ Load(stack') = Load(stack) + FrameWork(BranchFrame) - FrameWork(Top)
    BY <1>1, TopSums
  <1>. QED
    BY <1>1, <1>2, <1>3, <1>4, <1>5

LEMMA ReturnSums ==
    ASSUME ScanInv, Return
    PROVE  /\ ~Aborted => Waiting(stack') = Waiting(stack)
           /\ Load(stack') < Load(stack) /\ Load(stack') \in Nat
  <1>1. /\ stack \in Seq(Frame) /\ Len(stack) \in Nat /\ Len(stack) >= 1
        /\ stack' \in Seq(Frame) /\ Len(stack') = Len(stack) - 1
        /\ \A k \in 1..(Len(stack) - 1) : stack'[k] = stack[k]
        /\ Aborted \/ Top.targets = <<>>
    BY ReturnIs
  <1>. DEFINE t == stack'
  <1>2. /\ t \in Seq(Frame) /\ Len(stack) = Len(t) + 1
        /\ \A k \in 1..Len(t) : stack[k] = t[k]
        /\ Len(stack) \in 1..Len(stack)
    BY <1>1
  <1>3. Top \in Frame /\ FrameWork(Top) \in Nat /\ FrameWork(Top) >= 1
        /\ Len(Top.targets) \in Nat
    BY <1>1, <1>2, ElementOfSeq, FrameSizes DEF Top
  <1>4. ~Aborted => Len(Top.targets) = 0
    BY <1>1
  <1>. HIDE DEF t
  <1>5. Waiting(t) \in Nat /\ Load(t) \in Nat
    BY <1>2, FrameSums
  <1>6. /\ Waiting(stack) = Waiting(t) + Len(stack[Len(stack)].targets)
        /\ Load(stack) = Load(t) + FrameWork(stack[Len(stack)])
    BY <1>1, <1>2, SumsMore
  <1>. QED
    BY <1>3, <1>4, <1>5, <1>6 DEF t, Top
-----------------------------------------------------------------------------
(* Lists walked, branches that wait and a call under way are together the
   branches scheduled and the task's own list, once that was entered. *)
Walked ==
    \/ Aborted
    \/ stack = <<>> /\ ListsWalked = 0 /\ Scheduling = 0
    \/ /\ stack = <<>> => call = NoCall
       /\ ListsWalked + Waiting(stack) + Called(call) = Scheduling + 1

LEMMA AbortedStays ==
    ASSUME Aborted, hit \subseteq hit'
    PROVE  Aborted'
  BY DEF Aborted

LEMMA NoTargetIsNoCall ==
    ASSUME TypeOK, NEW c \in Target
    PROVE  c # NoCall
  <1>1. c.first \in Nat /\ c.first # 0
    BY LenProperties DEF TypeOK, Target
  <1>. QED
    BY <1>1 DEF NoCall

LEMMA WalkedStep ==
    ASSUME ScanInv, NewLists, Walked, [Next]_vars
    PROVE  Walked'
  <1>. DEFINE L == ListsWalked
              B == Scheduling
  <1>1. /\ L \in Nat /\ B \in Nat /\ Waiting(stack) \in Nat
        /\ stack = <<>> => Waiting(stack) = 0
        /\ TypeOK /\ result \in [Counter -> Nat]
    BY CountsAre, Types DEF ScanInv
  <1>2. CASE UNCHANGED <<stack, call, result>> /\ hit \subseteq hit'
    BY <1>2, AbortedStays
    DEF Walked, ListsWalked, Scheduling
  <1>3. CASE Refuse
    <2>1. /\ call # NoCall /\ UNCHANGED <<stack, hit>>
          /\ stack # <<>> => Aborted
          /\ \/ result' = result
             \/ result' = Plus(result, {"unresolved_references"})
      BY <1>3, RefusedIs
    <2>2. L' = L /\ B' = B
      BY <1>1, <2>1, OtherCounts
    <2>3. CASE Aborted
      BY <2>1, <2>3, AbortedStays DEF Walked
    <2>4. CASE ~Aborted
      BY <2>1, <2>2, <2>4 DEF Walked
    <2>. QED
      BY <2>3, <2>4
  <1>4. CASE Enter
    <2>1. /\ call # NoCall /\ call' = NoCall /\ ~Aborted
          /\ result' = Plus(result, {"display_lists_scanned"})
          /\ stack' # <<>> /\ Waiting(stack') = Waiting(stack)
      BY <1>4, EnterIs, EnterSums
    <2>2. /\ L' = L + (IF "display_lists_scanned" \in
                          {"display_lists_scanned"} THEN 1 ELSE 0)
          /\ B' = B + (IF "branch_targets_scanned" \in
                          {"display_lists_scanned"} THEN 1 ELSE 0)
      BY <1>1, <2>1, CountsMove
    <2>3. L' = L + 1 /\ B' = B
      BY <1>1, <2>2
    <2>4. Called(call) = 1 /\ Called(call)' = 0
      BY <2>1 DEF Called
    <2>5. L + Waiting(stack) + 1 = B + 1
      BY <1>1, <2>1, <2>4 DEF Walked
    <2>6. L' + Waiting(stack)' + Called(call)' = B' + 1
      BY <1>1, <2>1, <2>3, <2>4, <2>5
    <2>. QED
      BY <2>1, <2>6 DEF Walked
  <1>5. CASE StopAtLimit \/ StopAtEnd \/ StopOnAbort
    <2>1. /\ StopWalking /\ stack # <<>> /\ Top.walking /\ hit \subseteq hit'
          /\ UNCHANGED call
          /\ \/ result' = result
             \/ result' = Plus(result, {"unresolved_references"})
      BY <1>5 DEF StopAtLimit, StopAtEnd, StopOnAbort, Walking
    <2>2. stack' # <<>> /\ Waiting(stack') = Waiting(stack)
      BY <2>1, StopSums
    <2>3. L' = L /\ B' = B
      BY <1>1, <2>1, OtherCounts
    <2>4. CASE Aborted
      BY <2>1, <2>4, AbortedStays DEF Walked
    <2>5. CASE ~Aborted
      BY <2>1, <2>2, <2>3, <2>5 DEF Walked
    <2>. QED
      BY <2>4, <2>5
  <1>6. CASE WalkCommand
    <2>. DEFINE more == IF Scheduled(CmdVerdict) THEN 1 ELSE 0
    <2>1. /\ stack # <<>> /\ ~Aborted /\ UNCHANGED call
          /\ L' = L /\ B' = B + more
          /\ stack' # <<>> /\ Waiting(stack') = Waiting(stack) + more
      BY <1>6, CommandIs, CommandCounts, CommandSums
    <2>2. more \in Nat /\ Called(call) \in Nat /\ Called(call)' = Called(call)
      BY <2>1 DEF Called
    <2>. HIDE DEF more
    <2>3. L + Waiting(stack) + Called(call) = B + 1
      BY <2>1 DEF Walked
    <2>4. L' + Waiting(stack)' + Called(call)' = B' + 1
      BY <1>1, <2>1, <2>2, <2>3
    <2>. QED
      BY <2>1, <2>4 DEF Walked
  <1>7. CASE CallBranch
    <2>1. /\ stack # <<>> /\ ~Aborted /\ call = NoCall /\ call' \in Target
          /\ UNCHANGED result
          /\ stack' # <<>> /\ Waiting(stack') = Waiting(stack) - 1
      BY <1>7, CallBranchIs, BranchSums
    <2>2. L' = L /\ B' = B
      BY <2>1 DEF ListsWalked, Scheduling
    <2>3. Called(call) = 0 /\ Called(call)' = 1
      BY <1>1, <2>1, NoTargetIsNoCall DEF Called
    <2>4. L + Waiting(stack) + Called(call) = B + 1
      BY <2>1 DEF Walked
    <2>5. L' + Waiting(stack)' + Called(call)' = B' + 1
      BY <1>1, <2>1, <2>2, <2>3, <2>4
    <2>. QED
      BY <2>1, <2>5 DEF Walked
  <1>8. CASE Return
    <2>1. /\ stack # <<>> /\ call = NoCall /\ UNCHANGED <<call, result, hit>>
          /\ ~Aborted => Waiting(stack') = Waiting(stack)
      BY <1>8, ReturnIs, ReturnSums
    <2>2. L' = L /\ B' = B
      BY <2>1 DEF ListsWalked, Scheduling
    <2>3. CASE Aborted
      BY <2>1, <2>3, AbortedStays DEF Walked
    <2>4. CASE ~Aborted
      BY <2>1, <2>2, <2>4 DEF Walked
    <2>. QED
      BY <2>3, <2>4
  <1>9. CASE Finished \/ UNCHANGED vars
    BY <1>2, <1>9 DEF Finished, vars
  <1>. QED
    BY <1>3, <1>4, <1>5, <1>6, <1>7, <1>8, <1>9 DEF Next

(* Every branch the report calls scheduled was walked, as a list of its own,
   unless a limit ended the walk: no check at the head of scan_display_list
   turns a scheduled branch away. *)
THEOREM ScheduledWalked == Spec => []ScheduledAreWalked
  <1>1. Init => Walked
    BY DEF Init, Walked, ListsWalked, Scheduling, Counter
  <1>2. ASSUME ScanInv, Walked PROVE ScheduledAreWalked
    <2>1. /\ ListsWalked \in Nat /\ Scheduling \in Nat
          /\ stack = <<>> => Waiting(stack) = 0
      BY <1>2, CountsAre DEF ScanInv
    <2>. QED
      BY <1>2, <2>1
      DEF Walked, ScheduledAreWalked, Done, Called, ListsWalked, Scheduling
  <1>. QED
    BY <1>1, <1>2, WalkedStep, NewListsInvariant, PTL DEF Spec

CallWork(c) == IF c = NoCall THEN 0 ELSE 3

(* One step: the commands left, the call and the frames, before and after. *)
LEMMA LessToDo ==
    ASSUME NEW most \in Nat, NEW s \in Nat, NEW t \in Nat, s <= t, t <= most,
           NEW c \in {0, 3}, NEW d \in {0, 3}, NEW w \in Nat, NEW v \in Nat,
           \/ t = s /\ d + v < c + w
           \/ t = s + 1 /\ d + v < c + w + 5
    PROVE  /\ 5 * (most - t) + d + v < 5 * (most - s) + c + w
           /\ 5 * (most - t) + d + v >= 0
  OBVIOUS

LEMMA WorkStep ==
    ASSUME ScanInv, ScanInv', NewLists, Next
    PROVE  (Work' < Work /\ Work' >= 0) \/ UNCHANGED vars
  <1>. DEFINE c == CallWork(call)
              d == CallWork(call')
              w == Load(stack)
              v == Load(stack')
              s == Scanned
              t == Scanned'
              most == env.commands
  <1>1. /\ s \in Nat /\ most \in Nat /\ w \in Nat /\ c \in {0, 3} /\ d \in {0, 3}
    BY CountsAre DEF ScanInv, CallWork
  <1>2. /\ Work = 5 * (most - s) + c + w
        /\ UNCHANGED env => Work' = 5 * (most - t) + d + v
    BY DEF Work, CallWork, Load, Works, Scanned
  <1>3. UNCHANGED env => t <= most
    BY DEF ScanInv, LimitsTrue
  <1>4. ASSUME UNCHANGED env, v \in Nat,
               \/ t = s /\ d + v < c + w
               \/ t = s + 1 /\ d + v < c + w + 5
        PROVE  Work' < Work /\ Work' >= 0
    <2>1. t \in Nat /\ s <= t /\ t <= most
      BY <1>1, <1>3, <1>4
    <2>. HIDE DEF c, d, w, v, s, t, most
    <2>2. /\ 5 * (most - t) + d + v < 5 * (most - s) + c + w
          /\ 5 * (most - t) + d + v >= 0
      BY <1>1, <1>4, <2>1, LessToDo
    <2>. QED
      BY <1>2, <1>4, <2>2
  <1>5. CASE Refuse
    <2>1. /\ call # NoCall /\ call' = NoCall /\ UNCHANGED <<env, stack>>
          /\ \/ result' = result
             \/ result' = Plus(result, {"unresolved_references"})
      BY <1>5, RefusedIs
    <2>2. t = s
      BY <2>1, OtherCounts DEF ScanInv
    <2>3. c = 3 /\ d = 0 /\ v = w
      BY <2>1 DEF CallWork
    <2>. HIDE DEF c, d, w, v, s, t, most
    <2>. QED
      BY <1>1, <1>4, <2>1, <2>2, <2>3
  <1>6. CASE Enter
    <2>1. /\ call # NoCall /\ call' = NoCall /\ UNCHANGED env
          /\ t = s /\ v = w + 2
      BY <1>6, EnterIs, EnterSums
    <2>2. c = 3 /\ d = 0
      BY <2>1 DEF CallWork
    <2>. HIDE DEF c, d, w, v, s, t, most
    <2>. QED
      BY <1>1, <1>4, <2>1, <2>2
  <1>7. CASE StopAtLimit \/ StopAtEnd \/ StopOnAbort
    <2>1. /\ StopWalking /\ stack # <<>> /\ Top.walking /\ UNCHANGED <<env, call>>
          /\ \/ result' = result
             \/ result' = Plus(result, {"unresolved_references"})
      BY <1>7 DEF StopAtLimit, StopAtEnd, StopOnAbort, Walking
    <2>2. t = s
      BY <2>1, OtherCounts DEF ScanInv
    <2>3. v = w - 1 /\ v \in Nat /\ d = c
      BY <2>1, StopSums
    <2>. HIDE DEF c, d, w, v, s, t, most
    <2>. QED
      BY <1>1, <1>4, <2>1, <2>2, <2>3
  <1>8. CASE WalkCommand
    <2>1. /\ UNCHANGED <<env, call>> /\ t = s + 1
          /\ v <= w + 4 /\ v \in Nat /\ d = c
      BY <1>8, CommandIs, CommandSums
    <2>. HIDE DEF c, d, w, v, s, t, most
    <2>. QED
      BY <1>1, <1>4, <2>1
  <1>9. CASE CallBranch
    <2>1. /\ call = NoCall /\ UNCHANGED <<env, result>>
          /\ v = w - 4 /\ v \in Nat
      BY <1>9, CallBranchIs, BranchSums
    <2>2. c = 0 /\ t = s
      BY <2>1 DEF CallWork, Scanned
    <2>. HIDE DEF c, d, w, v, s, t, most
    <2>. QED
      BY <1>1, <1>4, <2>1, <2>2
  <1>10. CASE Return
    <2>1. /\ UNCHANGED <<env, call, result>> /\ v < w /\ v \in Nat
      BY <1>10, ReturnIs, ReturnSums
    <2>2. d = c /\ t = s
      BY <2>1 DEF Scanned
    <2>. HIDE DEF c, d, w, v, s, t, most
    <2>. QED
      BY <1>1, <1>4, <2>1, <2>2
  <1>11. CASE Finished
    BY <1>11 DEF Finished
  <1>. QED
    BY <1>5, <1>6, <1>7, <1>8, <1>9, <1>10, <1>11 DEF Next

(* Whatever the memory holds, every step leaves less to do than there was, and
   there is never less than nothing: the walk comes to its end. *)
THEOREM WalkTerminates == Spec => WalkEnds
  <1>1. ScanInv /\ NewLists /\ ScanInv' /\ [Next]_vars =>
            [Work' < Work /\ Work' >= 0]_vars
    BY WorkStep
  <1>. QED
    BY <1>1, NewListsInvariant, PTL DEF Spec, WalkEnds
=============================================================================
