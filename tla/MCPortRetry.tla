----------------------------- MODULE MCPortRetry -----------------------------
(***************************************************************************)
(* Windows of two ports (maxPortRetries is 5 in the code), a scan of two   *)
(* and one explicit --port; two other containers, with every assignment of *)
(* the three host ports to them and to other processes at the start.       *)
(***************************************************************************)
EXTENDS PortRetry

CONSTANTS c1, c2

MCOthers == {c1, c2}
MCPortFlags == {0, 2}
MCHostPorts == 1 .. 3
=============================================================================
