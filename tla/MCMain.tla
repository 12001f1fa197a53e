------------------------------- MODULE MCMain -------------------------------
(***************************************************************************)
(* Two files that another process changes twice.  Headers and extensions   *)
(* give a match of each confidence and of every engine, the two ties a     *)
(* header can produce, a signature against an extension, and a file nobody *)
(* knows; then the Provision of the engine that was chosen.                *)
(***************************************************************************)
EXTENDS Main

MCHeads == {{}, {"pgdmp"}, {"mysql", "mariadb"}, {"pgplain", "mysql"}, {"rdb"}}

MCEndings == {".tar", ".archive", ".sql", ".db", "other"}

MCFlags == {"", "redis", "oracle"}

MCEngines == {"postgres", "mysql", "mongo", "redis", "sqlite"}

(* Once Provision has taken a step nothing reads or changes what Detect    *)
(* left but the name of the engine, and every property has seen it.        *)
MCView ==
  IF stage = "provision" /\ (pc # 1 \/ outcome # "running")
    THEN <<"provisioning", vars>>
    ELSE <<"choosing", detectVars, vars>>
=============================================================================
