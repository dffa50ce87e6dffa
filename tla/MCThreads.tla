----------------------------- MODULE MCThreads -----------------------------
(* The probe's loop, thread id 3 only and one dispatch, and a loop that runs
   two threads of any id. *)
EXTENDS Threads

CONSTANTS t1, t2
MCThread == {t1, t2}
MCId == {1, 3}
MCModes == {[only |-> 3, max |-> 1], [only |-> AnyId, max |-> 2]}

(* Five records make the vector grow with records left to look at. *)
MCMaxRecords == [m \in MCModes |-> IF m.only = AnyId THEN 3 ELSE 5]
=============================================================================
