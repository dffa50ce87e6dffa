---------------------------- MODULE MCMesgQueue ----------------------------
(* The message queues on two queues of up to two slots and two words. *)
EXTENDS MesgQueue

CONSTANTS q1, q2, word0, m1
MCQueue == {q1, q2}
MCMsg == {word0, m1}
=============================================================================
