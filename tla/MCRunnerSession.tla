---------------------------- MODULE MCRunnerSession ----------------------------
(***************************************************************************)
(* Values for RunnerSession.cfg and the two runs that contradict the       *)
(* documentation: a new run and one that resumes share session t, and      *)
(* another run of the chat resumes session u.                              *)
(***************************************************************************)
EXTENDS RunnerSession

CONSTANTS new, resumes, other, t, u

Runs   == {new, resumes, other}
Tokens == {t, u}
TokenOfRuns == [r \in Runs |-> IF r = other THEN u ELSE t]
===============================================================================
