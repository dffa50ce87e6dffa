--------------------------- MODULE MCFrameClock ---------------------------
(* The frame pump with a count of 32 and frames of 7 counts; the file holds
   a fresh segment or one in the middle of a game. *)
EXTENDS FrameClock

MCDelays == {-1, 2, 3}

MCImages == { <<0, 0, 0, 0, 0, 0, 0, 0, 0, 1>>,
              <<4, 5, 1, 2, 2, 1, 0, 3, 10, 2>> }
=============================================================================
