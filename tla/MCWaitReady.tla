----------------------------- MODULE MCWaitReady -----------------------------
(***************************************************************************)
(* One tick is 100 ms: the pause and the naps are those of the code, the   *)
(* timeout (60 or 120 s there) is just above one nap, so that loops, a     *)
(* shortened nap and a pause that overruns the deadline all happen.        *)
(***************************************************************************)
EXTENDS WaitReady

MCLoops     == {"docker", "mongo", "redis"}
MCTimeout   == 14
MCPause     == 3
MCNap       == [docker |-> 10, mongo |-> 5, redis |-> 3]
MCProbeTime == 2
=============================================================================
