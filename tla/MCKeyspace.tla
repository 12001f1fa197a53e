----------------------------- MODULE MCKeyspace -----------------------------
(***************************************************************************)
(* Five keys: two of the group "a", one of the group "*", whose pattern    *)
(* "*:*" matches every key with a separator, one without separator, and    *)
(* key 5, "(sem separador):x".                                             *)
(***************************************************************************)
EXTENDS Keyspace

MCKeys == 1 .. 5
MCVolatile == {2, 4}
MCSeparated == {1, 2, 3, 5}
MCGroupOf == [k \in MCKeys |->
  CASE k \in {1, 2} -> "a" [] k = 3 -> "*" [] OTHER -> "(sem separador)"]
MCGlob == [g \in {"a", "*", "(sem separador)"} |->
  IF g = "*" THEN {"a", "*", "(sem separador)"} ELSE {g}]
MCScanLimit == [o \in {"health", "exact", "estimate"} |-> IF o = "estimate" THEN 2 ELSE 4]
=============================================================================
