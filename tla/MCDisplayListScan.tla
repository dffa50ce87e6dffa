------------------------- MODULE MCDisplayListScan -------------------------
(* Windows filled with every choice of a few commands. *)
EXTENDS DisplayListScan

Cmd(op, space, cell) ==
    [op |-> op, to |-> [space |-> space, seg |-> 1, cell |-> cell], ok |-> TRUE]

End == Cmd("end", "kseg0", 0)

MCCommands ==
    {End, Cmd("junk", "kseg0", 0), Cmd("branch", "kseg0", 0),
     Cmd("branch", "kseg0", 1), Cmd("branch", "kseg0", 3),
     Cmd("branch", "kseg0", 4), Cmd("branch", "segment", 3),
     Cmd("segment", "kseg0", 2)}

(* Commands that refer to resources, and are counted in more ways. *)
MCDrawing ==
    {End, Cmd("branch", "kseg0", 3), Cmd("branch", "physical", 1),
     Cmd("branch", "segment", 2),
     Cmd("segment", "physical", 2), Cmd("segment", "physical", 0),
     Cmd("sync", "kseg0", 0), Cmd("vertex", "segment", 1),
     Cmd("target", "physical", 1), Cmd("image", "segment", 2),
     [Cmd("image", "kseg0", 1) EXCEPT !.ok = FALSE],
     Cmd("mode", "kseg0", 0), Cmd("load_tlut", "kseg0", 0),
     Cmd("rdp_junk", "kseg0", 0)}

Setting(commands, list, depth, payload) ==
    [commands |-> commands, list |-> list, depth |-> depth, payload |-> payload]

Root(first, end) == [first |-> first, end |-> end]

(* Windows of five commands that branch, load segments, end or are junk, and
   of four commands of all kinds. *)
MCTasks ==
    {[windows |-> [1..5 -> MCCommands],
      roots |-> {Root(1, 0), Root(1, 4)},
      settings |-> {Setting(16, 4, 1, TRUE), Setting(16, 4, 2, TRUE),
                    Setting(16, 4, 2, FALSE), Setting(4, 4, 2, TRUE)}],
     [windows |-> [1..4 -> MCDrawing],
      roots |-> {Root(1, 0), Root(1, 4), Root(0, 2)},
      settings |-> {Setting(12, 3, 2, TRUE), Setting(12, 3, 1, FALSE)}]}

MCSegment == {1}
MCBacked == {1, 3}
=============================================================================
