------------------------------- MODULE MCMemp -------------------------------
(* Two banks and the scratch region in an address space of 26 words with a
   granule of 2: bank 4 at 3..8, bank 6 at 10..14, scratch at 16..22.  The
   mapping ends at 20, so a span may start in the scratch region and run out
   of the mapping. *)
EXTENDS Memp, TLC

CONSTANTS b4, b6
MCBank == {b4, b6}
MCStart == (b4 :> 3) @@ (b6 :> 10)
MCEnd == (b4 :> 8) @@ (b6 :> 14)
MCTranslates(a, n) == a >= 2 /\ a + n <= 20
MCPointers == {4, 5, 6, 10, 16}
MCAllocSizes == {0, 1, 3, 22, 25}
=============================================================================
