--------------------------- MODULE DisplayListScan ---------------------------
(***************************************************************************)
(* The host renderer's walk over one display-list task: renderer.cpp,      *)
(* goldeneye_renderer_execute_display_list_task and scan_display_list.     *)
(*                                                                         *)
(* A list is walked command by command; a branch is probed when it is met  *)
(* and, if it looks like a display list, walked AFTER the rest of the list *)
(* that holds it, with the segment table of the moment it was met.  Three  *)
(* budgets bound the walk: commands in all, commands in a list, depth.     *)
(* The recursion of the code is the sequence of frames "stack"; "call" is  *)
(* a call of scan_display_list that has not looked at its arguments yet.   *)
(*                                                                         *)
(* Guest memory is a window of cells, one command each; everything else    *)
(* does not translate.  A command is its opcode, its address operand and   *)
(* whether its other bits are well formed.                                 *)
(***************************************************************************)
EXTENDS Integers, Sequences, FiniteSets, Functions

CONSTANTS
    Tasks,           \* kinds of tasks: windows, what the memory that
                     \* translates may hold, roots, first_gdl and end_gdl as
                     \* cells, and settings: commands, list, depth, payload
    Segment,         \* the segments used, out of 1..15
    Backed,          \* the cells the provenance table knows
    ProbeLimit,      \* kBranchProbeCommandLimit
    DenseKnown,      \* a probe with so many known opcodes, and
    DenseUnknown     \* no more unknown ones than this, looks like a list

(* The opcodes in classes the walk treats alike: tile_sync is E8 and E9, sync
   E6 and E7; load_tlut is F0, load F3 and F4; tile is F2 and F5; mode is B6,
   B7 and B9, combine BA, EF and FC; vertex is 01 and 04; target is FE and
   FF; cull is BD and BE; junk is what no case knows, rdp_junk that from E4
   up. *)
Op == {"end", "branch", "segment", "sync", "tile_sync", "tile", "load",
       "load_tlut", "texture", "mode", "combine", "triangle", "vertex",
       "image", "target", "fill", "cull", "junk", "rdp_junk"}

(* Where an address operand points: a KSEG0 or physical address, or an
   offset from a segment's base.  Cell 0 is an address outside; as the base
   of a segment, physical cell 0 is the word 0, which is no base. *)
Operand == [space : {"kseg0", "physical", "segment"}, seg : Segment, cell : Nat]

Command == [op : Op, to : Operand, ok : BOOLEAN]

Settings == [commands : Nat, list : Nat, depth : Nat, payload : BOOLEAN]

ASSUME ScanAssumption ==
    /\ \A task \in Tasks :
          /\ task.windows \subseteq Seq(Command)
          /\ task.roots \subseteq [first : Nat, end : Nat]
          /\ task.settings \subseteq Settings
    /\ ProbeLimit \in Nat \ {0}
    /\ DenseKnown \in Nat /\ DenseUnknown \in Nat

Counter ==
    {"commands_scanned", "branch_commands_scanned", "display_lists_scanned",
     "rsp_commands", "rdp_commands", "enddl_commands",
     "branch_display_lists", "segmented_references",
     "resolved_segmented_references", "unresolved_references",
     "cycle_references", "branch_targets_considered",
     "branch_targets_plausible", "branch_targets_payload_or_unknown",
     "branch_targets_untranslated", "branch_targets_skipped",
     "branch_targets_scanned", "backend_packets", "backend_geometry_packets",
     "backend_state_packets", "backend_texture_packets",
     "backend_target_packets", "backend_sync_packets",
     "backend_address_refs", "backend_valid_refs", "backend_invalid_refs",
     "backend_backed_refs", "backend_unbacked_refs",
     "texture_image_raw_candidates", "texture_image_payload_false_positives",
     "texture_image_malformed_dl_commands", "texture_image_real_dl_commands",
     "texture_image_real_backed", "texture_image_real_unbacked"}

VARIABLES
    mem,      \* the window
    env,      \* the settings
    call,     \* the call about to be looked at, or NoCall
    stack,    \* the frames of the calls under way; frame k has depth k - 1
    result,   \* the counters of GoldenEyeRendererTaskResult
    hit       \* which of its limits were hit

vars == <<mem, env, call, stack, result, hit>>

NoCall == [first |-> 0, end |-> 0, segments |-> <<>>]

NoSegments == [s \in Segment |-> 0]

Plus(counts, names) ==
    [c \in Counter |-> counts[c] + (IF c \in names THEN 1 ELSE 0)]

Aborted == hit \cap {"command", "depth"} # {}

Init ==
    /\ \E task \in Tasks :
          /\ mem \in task.windows
          /\ env \in task.settings
          /\ \E root \in task.roots :
                call = [first |-> root.first, end |-> root.end,
                        segments |-> NoSegments]
    /\ stack = <<>>
    /\ result = [c \in Counter |-> 0]
    /\ hit = {}

-----------------------------------------------------------------------------
(* Addresses. *)
Translates(cell) == cell \in DOMAIN mem

Resolves(operand, segments) ==
    operand.space = "segment" => segments[operand.seg] # 0

Resolved(operand, segments) ==
    IF operand.space = "segment"
    THEN segments[operand.seg] + operand.cell
    ELSE operand.cell

(* A branch does not relocate physical addresses, a resource reference
   does. *)
BranchReaches(operand, segments) ==
    /\ operand.space # "physical"
    /\ Resolves(operand, segments)
    /\ Translates(Resolved(operand, segments))

RefReaches(operand, segments) ==
    /\ Resolves(operand, segments)
    /\ Translates(Resolved(operand, segments))

(* decode_segment_move_word *)
Decoded(cmd, segments) ==
    IF cmd.op = "segment" /\ cmd.ok
    THEN [segments EXCEPT ![cmd.to.seg] = cmd.to.cell]
    ELSE segments

-----------------------------------------------------------------------------
(* Guesses about memory. *)
Known(cell) == mem[cell].op \notin {"junk", "rdp_junk"}

(* The cells a probe of a target reads. *)
ProbeReads(target) ==
    {c \in target..(target + ProbeLimit - 1) :
        /\ Translates(c)
        /\ \A b \in target..(c - 1) : mem[b].op # "end"}

Plausible(target) ==
    LET read == ProbeReads(target)
        known == Cardinality({c \in read : Known(c)})
        unknown == Cardinality(read) - known
        enddl == \E c \in read : mem[c].op = "end"
    IN  \/ known >= DenseKnown /\ unknown <= DenseUnknown
        \/ enddl /\ known >= 2 /\ known >= unknown

InListNeighborhood(cell) ==
    LET near == {c \in (cell - 2)..(cell + 2) : Translates(c)}
        known == {c \in near : Known(c)}
        texture == {c \in near \ {cell} :
                       mem[c].op \in {"sync", "tile", "load", "texture"}}
    IN  /\ Cardinality(near) >= 3
        /\ \/ Cardinality(known) >= 3
           \/ Cardinality(known) >= 2 /\ texture # {}

-----------------------------------------------------------------------------
(* What a command is counted as: classify_command. *)
Rdp == {"end", "segment", "sync", "tile_sync", "tile", "load", "load_tlut",
        "texture", "combine", "image", "target", "fill", "rdp_junk"}

Reference(operand, segments) ==
    {"backend_address_refs"} \cup
    (IF RefReaches(operand, segments)
     THEN {"backend_valid_refs",
           IF Resolved(operand, segments) \in Backed
           THEN "backend_backed_refs" ELSE "backend_unbacked_refs"}
     ELSE {"backend_invalid_refs"})

(* A wrong form: a malformed command is counted as a real one, too. *)
TextureImageTwice(cmd, cell, segments) ==
    {"texture_image_raw_candidates"} \cup
    (IF ~InListNeighborhood(cell)
     THEN {"texture_image_payload_false_positives"}
     ELSE (IF cmd.ok THEN {} ELSE {"texture_image_malformed_dl_commands"})
          \cup {"texture_image_real_dl_commands", "backend_texture_packets",
                "backend_packets",
                IF /\ RefReaches(cmd.to, segments)
                   /\ Resolved(cmd.to, segments) \in Backed
                THEN "texture_image_real_backed"
                ELSE "texture_image_real_unbacked"}
          \cup Reference(cmd.to, segments))

TextureImage(cmd, cell, segments) ==
    {"texture_image_raw_candidates"} \cup
    (IF ~InListNeighborhood(cell)
     THEN {"texture_image_payload_false_positives"}
     ELSE IF ~cmd.ok
     THEN {"texture_image_malformed_dl_commands"}
     ELSE {"texture_image_real_dl_commands", "backend_texture_packets",
           "backend_packets",
           IF /\ RefReaches(cmd.to, segments)
              /\ Resolved(cmd.to, segments) \in Backed
           THEN "texture_image_real_backed"
           ELSE "texture_image_real_unbacked"}
          \cup Reference(cmd.to, segments))

Packet(op) ==
    CASE op \in {"vertex", "triangle"} ->
            {"backend_packets", "backend_geometry_packets"}
      [] op \in {"texture", "mode", "combine"} ->
            {"backend_packets", "backend_state_packets"}
      [] op \in {"tile", "load", "load_tlut"} ->
            {"backend_packets", "backend_texture_packets"}
      [] op \in {"target", "fill"} ->
            {"backend_packets", "backend_target_packets"}
      [] op \in {"sync", "tile_sync"} -> {"backend_packets", "backend_sync_packets"}
      [] OTHER -> {}

Classified(cmd, cell, segments) ==
    {IF cmd.op \in Rdp THEN "rdp_commands" ELSE "rsp_commands"}
    \cup Packet(cmd.op)
    \cup (IF cmd.op \in {"vertex", "target"}
          THEN Reference(cmd.to, segments) ELSE {})
    \cup (IF cmd.op = "image" THEN TextureImage(cmd, cell, segments) ELSE {})

-----------------------------------------------------------------------------
(* The calls. *)
Depth == Len(stack) - 1

Starts == {stack[k].first : k \in 1..Len(stack)}

Top == stack[Len(stack)]

(* A wrong form: one level more than allowed. *)
TooDeepLate == Depth + 1 > env.depth + 1

(* Whether a list below the one on top would be too deep. *)
TooDeep == Depth + 1 > env.depth

(* The conditions under which a call walks its list. *)
Enterable ==
    /\ ~Aborted
    /\ ~TooDeep
    /\ Translates(call.first)
    /\ call.first \notin Starts

Refuse ==
    /\ call # NoCall
    /\ ~Enterable
    /\ hit' = IF ~Aborted /\ TooDeep
              THEN hit \cup {"depth"} ELSE hit
    /\ result' =
          IF Aborted \/ TooDeep THEN result
          ELSE Plus(result, {IF Translates(call.first)
                             THEN "cycle_references"
                             ELSE "unresolved_references"})
    /\ call' = NoCall
    /\ UNCHANGED <<mem, env, stack>>

Enter ==
    /\ call # NoCall
    /\ Enterable
    /\ stack' = Append(stack, [first |-> call.first, end |-> call.end,
                               at |-> call.first, commands |-> 0,
                               segments |-> call.segments, targets |-> <<>>,
                               walking |-> TRUE])
    /\ result' = Plus(result, {"display_lists_scanned"})
    /\ call' = NoCall
    /\ UNCHANGED <<mem, env, hit>>

-----------------------------------------------------------------------------
(* The loop over the commands of the list on top of the stack. *)
Walking == call = NoCall /\ stack # <<>> /\ Top.walking

AtKnownEnd == Top.end > Top.first /\ Top.at >= Top.end

(* A wrong form: one command more than allowed. *)
OverBudgetLate == result["commands_scanned"] > env.commands

OverBudget == result["commands_scanned"] >= env.commands

OverListBudget == Top.commands >= env.list

StopWalking == stack' = [stack EXCEPT ![Len(stack)].walking = FALSE]

StopAtLimit ==
    /\ Walking /\ ~Aborted
    /\ OverBudget \/ OverListBudget
    /\ hit' = hit \cup {IF OverBudget THEN "command" ELSE "list"}
    /\ StopWalking
    /\ UNCHANGED <<mem, env, call, result>>

StopAtEnd ==
    /\ Walking /\ ~Aborted
    /\ ~OverBudget /\ ~OverListBudget
    /\ AtKnownEnd \/ ~Translates(Top.at)
    /\ result' = IF AtKnownEnd THEN result
                 ELSE Plus(result, {"unresolved_references"})
    /\ StopWalking
    /\ UNCHANGED <<mem, env, call, hit>>

StopOnAbort ==
    /\ Walking /\ Aborted
    /\ StopWalking
    /\ UNCHANGED <<mem, env, call, result, hit>>

(* A wrong form: lists under way are scheduled again. *)
VerdictWithoutCycles(operand, segments) ==
    IF ~BranchReaches(operand, segments) THEN "untranslated"
    ELSE IF TooDeep THEN "deep"
    ELSE IF Plausible(Resolved(operand, segments)) THEN "plausible"
    ELSE "payload"

(* What the branch to an operand leads to. *)
Verdict(operand, segments) ==
    IF ~BranchReaches(operand, segments) THEN "untranslated"
    ELSE IF Resolved(operand, segments) \in Starts THEN "cycle"
    ELSE IF TooDeep THEN "deep"
    ELSE IF Plausible(Resolved(operand, segments)) THEN "plausible"
    ELSE "payload"

(* A wrong form: payload is walked whatever the settings say. *)
ScheduledAlways(verdict) == verdict \in {"plausible", "payload"}

Scheduled(verdict) ==
    verdict = "plausible" \/ (verdict = "payload" /\ env.payload)

Branch(operand, segments, verdict) ==
    {"branch_display_lists"}
    \cup (IF operand.space # "segment" THEN {}
          ELSE {"segmented_references"} \cup
               (IF Resolves(operand, segments)
                THEN {"resolved_segmented_references"} ELSE {}))
    \cup (CASE verdict = "untranslated" ->
                  {"unresolved_references", "branch_targets_considered",
                   "branch_targets_untranslated"}
            [] verdict = "cycle" -> {"cycle_references"}
            [] verdict = "deep" -> {}
            [] verdict = "plausible" ->
                  {"branch_targets_considered", "branch_targets_plausible"}
            [] verdict = "payload" ->
                  {"branch_targets_considered",
                   "branch_targets_payload_or_unknown"})
    \cup (IF Scheduled(verdict) THEN {"branch_targets_scanned"} ELSE {})
    \cup (IF verdict = "payload" /\ ~env.payload
          THEN {"branch_targets_skipped"} ELSE {})

WalkCommand ==
    /\ Walking /\ ~Aborted
    /\ ~OverBudget /\ ~OverListBudget /\ ~AtKnownEnd
    /\ Translates(Top.at)
    /\ LET cmd == mem[Top.at]
           segments == Decoded(cmd, Top.segments)
           verdict == IF cmd.op = "branch" THEN Verdict(cmd.to, segments)
                      ELSE "none"
           target == [first |-> Resolved(cmd.to, segments), end |-> 0,
                      segments |-> segments]
           moved == IF cmd.op = "end" THEN 0 ELSE 1
       IN  /\ result' = Plus(result,
                 Classified(cmd, Top.at, segments)
                 \cup {"commands_scanned"}
                 \cup (IF Depth > 0 THEN {"branch_commands_scanned"} ELSE {})
                 \cup (IF cmd.op = "end" THEN {"enddl_commands"} ELSE {})
                 \cup (IF cmd.op = "branch"
                       THEN Branch(cmd.to, segments, verdict) ELSE {}))
           /\ hit' = IF verdict = "deep" THEN hit \cup {"depth"} ELSE hit
           /\ stack' = [stack EXCEPT ![Len(stack)] =
                 [Top EXCEPT !.segments = segments,
                             !.walking = cmd.op # "end",
                             !.at = Top.at + moved,
                             !.commands = Top.commands + moved,
                             !.targets = IF Scheduled(verdict)
                                         THEN Append(Top.targets, target)
                                         ELSE Top.targets]]
    /\ UNCHANGED <<mem, env, call>>

-----------------------------------------------------------------------------
(* The loop over the branches the list scheduled. *)
Branching == call = NoCall /\ stack # <<>> /\ ~Top.walking

(* A wrong form: the limits are not looked at between branches. *)
CallBranchAfterAbort ==
    /\ Branching
    /\ Top.targets # <<>>
    /\ call' = Head(Top.targets)
    /\ stack' = [stack EXCEPT ![Len(stack)].targets = Tail(@)]
    /\ UNCHANGED <<mem, env, result, hit>>

(* A wrong form: a branch that is walked stays scheduled. *)
CallBranchAgain ==
    /\ Branching /\ ~Aborted
    /\ Top.targets # <<>>
    /\ call' = Head(Top.targets)
    /\ UNCHANGED <<mem, env, stack, result, hit>>

CallBranch ==
    /\ Branching /\ ~Aborted
    /\ Top.targets # <<>>
    /\ call' = Head(Top.targets)
    /\ stack' = [stack EXCEPT ![Len(stack)].targets = Tail(@)]
    /\ UNCHANGED <<mem, env, result, hit>>

Return ==
    /\ Branching
    /\ Aborted \/ Top.targets = <<>>
    /\ stack' = SubSeq(stack, 1, Len(stack) - 1)
    /\ UNCHANGED <<mem, env, call, result, hit>>

Done == call = NoCall /\ stack = <<>>

(* The walk is over: there is no other state in which nothing can happen. *)
Finished == Done /\ UNCHANGED vars

Next ==
    \/ Refuse \/ Enter
    \/ StopAtLimit \/ StopAtEnd \/ StopOnAbort \/ WalkCommand
    \/ CallBranch \/ Return
    \/ Finished

Spec == Init /\ [][Next]_vars

-----------------------------------------------------------------------------
Frame == [first : DOMAIN mem, end : Nat, at : Nat, commands : Nat,
          segments : [Segment -> Nat],
          targets : Seq([first : DOMAIN mem, end : {0},
                         segments : [Segment -> Nat]]),
          walking : BOOLEAN]

TypeOK ==
    /\ mem \in Seq(Command)
    /\ env \in Settings
    /\ call = NoCall \/ call \in [first : Nat, end : Nat,
                                  segments : [Segment -> Nat]]
    /\ stack \in Seq(Frame)
    /\ result \in [Counter -> Nat]
    /\ hit \subseteq {"command", "list", "depth"}

(* The sums among the counters n: each command is an RSP or an RDP command,
   each packet is of one class, each reference is valid or not and each valid
   one backed or not, each texture image is real, malformed or a false
   positive, and each branch was judged in exactly one way, except as many as
   deep. *)
AddsUp(n, deep) ==
    /\ n["commands_scanned"] = n["rsp_commands"] + n["rdp_commands"]
    /\ n["backend_packets"] =
          n["backend_geometry_packets"] + n["backend_state_packets"]
          + n["backend_texture_packets"] + n["backend_target_packets"]
          + n["backend_sync_packets"]
    /\ n["backend_address_refs"] =
          n["backend_valid_refs"] + n["backend_invalid_refs"]
    /\ n["backend_valid_refs"] =
          n["backend_backed_refs"] + n["backend_unbacked_refs"]
    /\ n["texture_image_raw_candidates"] =
          n["texture_image_real_dl_commands"]
          + n["texture_image_malformed_dl_commands"]
          + n["texture_image_payload_false_positives"]
    /\ n["texture_image_real_dl_commands"] =
          n["texture_image_real_backed"] + n["texture_image_real_unbacked"]
    /\ n["branch_targets_considered"] =
          n["branch_targets_plausible"]
          + n["branch_targets_payload_or_unknown"]
          + n["branch_targets_untranslated"]
    /\ n["branch_targets_plausible"]
          + n["branch_targets_payload_or_unknown"] =
          n["branch_targets_scanned"] + n["branch_targets_skipped"]
    /\ n["branch_display_lists"] =
          n["branch_targets_considered"] + n["cycle_references"] + deep

(* The report adds up at every moment; only the branch that hits the depth
   limit, and ends the walk, is judged in no way. *)
CountsAddUp == AddsUp(result, IF "depth" \in hit THEN 1 ELSE 0)

(* The lists under way are all different, so that no list is walked inside
   itself, and there is room for them in the stack reserved at the start. *)
StackSound ==
    /\ TypeOK
    /\ Len(stack) <= env.depth + 1
    /\ Cardinality(Starts) = Len(stack)

(* Every branch the report calls scheduled was walked, as a list of its own,
   unless a limit ended the walk: the checks at the head of
   scan_display_list never turn a scheduled branch away. *)
ScheduledAreWalked ==
    Done /\ ~Aborted /\ result["display_lists_scanned"] > 0 =>
        result["display_lists_scanned"] = result["branch_targets_scanned"] + 1

(* A list other than the task's own is walked only where a probe found a
   display list, unless the settings ask for the rest too. *)
OnlyPlausibleWalked ==
    \A k \in 2..Len(stack) : Plausible(stack[k].first) \/ env.payload

(* The limits are kept exactly: never one command too many, and a limit is
   reported only where it was reached. *)
WithinBudgets ==
    /\ result["commands_scanned"] <= env.commands
    /\ \A k \in 1..Len(stack) : stack[k].commands <= env.list
    /\ "command" \in hit => result["commands_scanned"] = env.commands
    /\ "list" \in hit => result["commands_scanned"] >= env.list

(* After the command limit or the depth limit was hit the walk only
   unwinds: it counts nothing more and starts no list. *)
AbortIsFinal == [][Aborted => result' = result /\ call' = NoCall]_vars

(* What is left to do: commands of the budget, branches that are scheduled,
   calls and lists under way, each worth more than what may come of it. *)
FrameWork(frame) ==
    4 * Len(frame.targets) + (IF frame.walking THEN 2 ELSE 1)

Work ==
    5 * (env.commands - result["commands_scanned"])
    + (IF call = NoCall THEN 0 ELSE 3)
    + SumFunction([k \in DOMAIN stack |-> FrameWork(stack[k])])

(* Whatever the memory holds, loops of branches included, the walk ends: no
   step leaves as much to do as there was, and there is never less than
   nothing. *)
WalkEnds == [][Work' < Work /\ Work' >= 0]_vars
=============================================================================
