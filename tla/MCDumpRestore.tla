---------------------------- MODULE MCDumpRestore ----------------------------
(***************************************************************************)
(* Dumps of up to three chunks, announced right or wrong, through a pipe   *)
(* that holds one: everyone has to wait for everyone.                      *)
(***************************************************************************)
EXTENDS DumpRestore

MCEngines    == {"postgres", "mysql", "mongo", "redis"}
MCRelational == {"postgres", "mysql"}
MCSizes      == 0 .. 3
=============================================================================
