---------------------------- MODULE ReadyContract ----------------------------
(***************************************************************************)
(* What Provision of an engine relies on when it has waited for a server,  *)
(* whichever of the three loops of WaitReady it called: the outcome has a  *)
(* cause in the server, the clock or the context, and it is final.         *)
(***************************************************************************)
EXTENDS Integers

CONSTANT Timeout  \* the timeout argument

VARIABLES
  outcome,  \* "none" while the caller waits
  elapsed,  \* the time it has waited
  ctxDone,  \* the operator has cancelled
  server,   \* what runs in the container
  flaky     \* the docker client may fail although the server answers

vars == <<outcome, elapsed, ctxDone, server, flaky>>

Init ==
  /\ outcome = "none"
  /\ elapsed = 0
  /\ ctxDone = FALSE
  /\ server = "booting"
  /\ flaky \in BOOLEAN

(* The world goes on: time passes, the server changes, the operator        *)
(* cancels, and a cancellation is never undone.                            *)
World ==
  /\ outcome = "none"
  /\ elapsed' >= elapsed
  /\ ctxDone => ctxDone'
  /\ server = "dead" => server' = "dead"
  /\ UNCHANGED <<outcome, flaky>>

(* Ready only while a server answers, and not for a caller that is gone.   *)
Ready ==
  /\ server \notin {"booting", "restarting", "dead"}
  /\ ~ctxDone
  /\ outcome' = "ready"

(* The timeout is never reported early.                                    *)
GiveUp == elapsed >= Timeout /\ outcome' = "timeout"

GiveIn == ctxDone /\ outcome' = "cancelled"

(* Death is only reported of the dead, unless docker itself fails: above   *)
(* all, a cancellation is not taken for a backup that kills the server.    *)
Bury == (server = "dead" \/ flaky) /\ outcome' = "died"

Conclude ==
  /\ outcome = "none"
  /\ Ready \/ GiveUp \/ GiveIn \/ Bury
  /\ UNCHANGED <<elapsed, ctxDone, server, flaky>>

Next == World \/ Conclude

Spec == Init /\ [][Next]_vars
=============================================================================
