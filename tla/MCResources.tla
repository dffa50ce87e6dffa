---------------------------- MODULE MCResources ----------------------------
(* Five cells of RDRAM at addresses 1..5, their uncached view at 11..15 and
   two cells of the low mirror at 7..8; 6, 9 and 10 show nothing.  The
   csegment is 2..4.  The ROM has room for everything but the last section,
   which starts where a ROM of 6 ends, as section 22 does. *)
EXTENDS Resources

MCCellOf ==
    [v \in 0..15 |->
       IF v \in 1..5 \cup 7..8 THEN v ELSE IF v \in 11..15 THEN v - 10 ELSE 0]

MCSections ==
    << [rom |-> 1, ram |-> 1, size |-> 1],
       [rom |-> 2, ram |-> 7, size |-> 2],
       [rom |-> 6, ram |-> 2, size |-> 3] >>

MCRomSizes == {-1, 4, 6, 9}

MCDmaBlocks == {<<2, 1>>, <<5, 0>>, <<6, 1>>, <<12, 2>>}

MCPoolBlocks == {<<3, 2>>}

MCResizes == {<<3, 1>>, <<3, 20>>, <<4, 1>>}

(* A block that is allocated, loaded from the ROM and resized. *)
MCLastBlock == {<<5, 1>>}
=============================================================================
