---------------------------- MODULE RunnerContract ----------------------------
(***************************************************************************)
(* What a runner promises the bridge about the events of one run, whatever *)
(* its agent prints: the session is announced at most once, and it is the  *)
(* one that was asked for; a completion comes last and comes once; a run   *)
(* that announced its session completes, and only a run that did not may   *)
(* fail instead; and every run does one of the two.                        *)
(***************************************************************************)
CONSTANTS Token, None

VARIABLES
  asked,   \* the session to resume, or None
  session, \* the session the run has announced, or None
  fate     \* "running", "completed" or "failed"

vars == <<asked, session, fate>>

Init ==
  /\ asked \in Token \cup {None}
  /\ session = None
  /\ fate = "running"

Announce(t) ==
  /\ fate = "running" /\ session = None
  /\ asked \in {None, t}
  /\ session' = t
  /\ UNCHANGED <<asked, fate>>

Complete ==
  /\ fate = "running"
  /\ fate' = "completed"
  /\ UNCHANGED <<asked, session>>

Fail ==
  /\ fate = "running" /\ session = None
  /\ fate' = "failed"
  /\ UNCHANGED <<asked, session>>

Next == (\E t \in Token : Announce(t)) \/ Complete \/ Fail

Safe == Init /\ [][Next]_vars

Spec == Safe /\ WF_vars(Complete)
===============================================================================
