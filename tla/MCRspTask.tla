----------------------------- MODULE MCRspTask -----------------------------
(* The scheduler loop with two done structures. *)
EXTENDS RspTask

CONSTANTS d1, d2
MCDoneMsg == {d1, d2}
=============================================================================
