----------------------------- MODULE MCLifecycle -----------------------------
(* The channel of the code: one signal waits, the next ones are dropped.   *)
EXTENDS Lifecycle

MCSigBuffer == 1
=============================================================================
