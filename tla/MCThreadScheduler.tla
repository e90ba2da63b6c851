------------------------- MODULE MCThreadScheduler -------------------------
(***************************************************************************)
(* Three jobs of one thread, which is what it takes for an enqueue to slip *)
(* in between the two discards of a worker that exits, and the first run   *)
(* of the thread, announced while the jobs arrive.                         *)
(***************************************************************************)
EXTENDS ThreadScheduler

CONSTANTS j1, j2, j3, r1, t1

OneThread == [o \in Owner |-> t1]
=============================================================================
