------------------------------ MODULE MCStateStore -----------------------------
(* The instance of StateStore that TLC checks: processes and updates are alike. *)
EXTENDS StateStore, TLC

Symmetry == Permutations(Process) \cup Permutations(Update)
\* Nothing is claimed of what follows a disturbance: it is looked at only while
\* no update is complete.
Followed == disturbed => completed = {}
================================================================================
