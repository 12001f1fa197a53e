------------------------------ MODULE MCRecent ------------------------------
(***************************************************************************)
(* One or two names of each tier, a name of none, and every type for each, *)
(* in every order; three rows of which two are shown; documents with       *)
(* nested, dotted, empty and mixed fields, flattened one level deep.       *)
(***************************************************************************)
EXTENDS Recent

MCEngines == {"postgres", "mysql", "mariadb", "sqlite", "mongo"}

MCTiers == <<{"created_at", "inserted_at"}, {"data"}, {"updated_at"}>>

MCMongoOrderFields == <<"created_at", "inserted_at", "data", "updated_at">>

Col == [name : {"created_at", "inserted_at", "data", "updated_at", "quando"}, type : Types]

Id == [name |-> "id", type |-> "text"]

ColumnLists ==
  {<<>>} \cup {<<c>> : c \in Col}
  \cup {<<c, d>> : <<c, d>> \in {p \in Col \X Col : p[1].name # p[2].name}}
  \cup {<<[name |-> "updated_at", type |-> "date"], [name |-> "inserted_at", type |-> "text"],
          [name |-> "created_at", type |-> "date"]>>}

MCTables ==
  {[cols |-> cs, pk |-> NoColumn] : cs \in ColumnLists}
  \cup {[cols |-> <<Id>> \o cs, pk |-> "id"] : cs \in ColumnLists}

MCCells == {[kind |-> "null", at |-> 0], [kind |-> "value", at |-> 1], [kind |-> "value", at |-> 2]}

Leaf(path, kind, at) == [path |-> path, kind |-> kind, at |-> at]

MCDocs == {
  {Leaf(<<<<"_id">>>>, "id", 1), Leaf(<<<<"created_at">>>>, "date", 2),
   Leaf(<<<<"a">>, <<"b">>, <<"c">>>>, "text", 1), Leaf(<<<<"a">>, <<"b">>, <<"d">>>>, "null", 0)},
  {Leaf(<<<<"_id">>>>, "id", 2), Leaf(<<<<"created_at">>>>, "text", 9),
   Leaf(<<<<"data">>>>, "date", 1), Leaf(<<<<"a">>>>, "array", 1)},
  {Leaf(<<<<"_id">>>>, "id", 3), Leaf(<<<<"a", "b">>>>, "text", 1),
   Leaf(<<<<"a">>, <<"b">>>>, "text", 2), Leaf(<<<<"e">>>>, "empty", 0)},
  {Leaf(<<<<"_id">>>>, "id", 4), Leaf(<<<<"created_at">>>>, "date", 3),
   Leaf(<<<<"data">>>>, "date", 3), Leaf(<<<<"e">>, <<"f">>>>, "empty", 0)}}
=============================================================================
