----------------------------- MODULE MCCronJobs --------------------------------
(***************************************************************************)
(* Values for CronJobs.cfg: a recurring job and one that fires once.       *)
(***************************************************************************)
EXTENDS CronJobs, TLC

CONSTANTS p1, p2

MCSchedule == ("hourly" :> [one_time |-> FALSE, at |-> 0])
           @@ ("once"   :> [one_time |-> TRUE, at |-> 1])
\* The command line is one unit ahead of Asia/Shanghai.
MCAhead == -1

\* Bound: once starts have raced, there is no fault and no command as well.
RaceAlone == raced => edits = 0 /\ faults = 0

MCEdit == {<<"add", "once">>, <<"remove", "once">>, <<"disable", "hourly">>,
           <<"enable", "hourly">>}
===============================================================================
