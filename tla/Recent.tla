------------------------------- MODULE Recent -------------------------------
(***************************************************************************)
(* "The 20 most recent" of one table or collection: Collections settles by *)
(* which column Recent will sort, Recent sorts and cuts.                   *)
(*                                                                         *)
(* MySQL, MariaDB and SQLite decide with the loop of                       *)
(* relational.ChooseOrderColumn, Postgres with the CTE "best" of tablesSQL *)
(* that replicates it, MongoDB by one sample document.  What a DESC sort   *)
(* makes of NULLs, of mixed types and of types without an order is each    *)
(* server's.  MongoDB's documents then become rows of a table.             *)
(*                                                                         *)
(* A document is the set of its leaves: what stands at the end of a path   *)
(* of keys.  A key is a sequence of atoms, of which a key with dots in it  *)
(* has several.                                                            *)
(***************************************************************************)
EXTENDS Integers, Sequences

CONSTANTS
  Engines,           \* the engines considered
  OrderColumnTiers,  \* the known names: created, published, updated
  mongoOrderFields,  \* the same names in one list
  Tables,            \* tables: columns in their order, and the simple PK
  Cells,             \* what a column of a row may hold
  Docs,              \* documents of a MongoDB collection
  MaxRows,           \* a bound of the model: rows of a table
  RecentLimit,       \* 20 in the code
  mongoFlattenDepth  \* 3 in the code

Relational == {"postgres", "mysql", "mariadb", "sqlite"}

(* The code's "": no column to sort by.                                    *)
NoColumn == "none"

Types == {"date", "text", "json"}
Kinds == {"null", "date", "text", "id", "array", "empty"}

ASSUME RecentAssumption ==
  /\ Engines \subseteq Relational \cup {"mongo"}
  /\ OrderColumnTiers \in [1 .. 3 -> SUBSET (STRING \ {NoColumn})]
  /\ \A t \in Tables :
       /\ t.cols \in Seq([name : STRING \ {NoColumn}, type : Types])
       /\ t.pk \in STRING
  /\ mongoOrderFields \in Seq(STRING \ {NoColumn})
  /\ Cells \subseteq [kind : {"null", "value"}, at : Nat]
  /\ \A d \in Docs : \A l \in d : l.kind \in Kinds /\ l.at \in Nat /\ l.path \in Seq(Seq(STRING))
  /\ MaxRows \in Nat /\ RecentLimit \in Nat /\ mongoFlattenDepth \in Nat

VARIABLES
  eng,      \* the engine
  table,    \* the table, for a relational engine
  phase,    \* where the session is
  pos,        \* ChooseOrderColumn: the column at hand
  best,     \* ChooseOrderColumn: the least preference so far
  orderCol, \* ChooseOrderColumn: the column that has it, if any
  desc,     \* the descriptor: the column to sort by, and whether it is a date's
  rows,     \* what the rows hold in that column; for mongo, the documents
  shown,    \* the rows Recent returned, in their order
  result    \* for mongo: what stands in each column of each of them

vars == <<eng, table, phase, pos, best, orderCol, desc, rows, shown, result>>

prefAnyDate == 4
prefNone    == 9

NoDesc == [col |-> NoColumn, byDate |-> FALSE]

TypeOK ==
  /\ eng \in Engines
  /\ table \in Tables
  /\ phase \in {"collections", "listed", "shown", "failed"}
  /\ pos \in 1 .. Len(table.cols) + 1
  /\ best \in {1, 2, 3, prefAnyDate, prefNone}
  /\ orderCol \in STRING \cup {NoColumn}
  /\ desc \in [col : STRING \cup {NoColumn}, byDate : BOOLEAN]

Init ==
  /\ eng \in Engines
  /\ table \in Tables
  /\ eng = "mongo" => table.cols = <<>>
  /\ phase = "collections"
  /\ pos = 1
  /\ best = prefNone
  /\ orderCol = NoColumn
  /\ desc = NoDesc
  /\ rows = <<>>
  /\ shown = <<>>
  /\ result = <<>>

-----------------------------------------------------------------------------
(* columnPref: the tier of the name, whatever the type; else the type.     *)
ColumnPref(c) ==
  IF c.name \in OrderColumnTiers[1] THEN 1
  ELSE IF c.name \in OrderColumnTiers[2] THEN 2
  ELSE IF c.name \in OrderColumnTiers[3] THEN 3
  ELSE IF c.type = "date" THEN prefAnyDate
  ELSE prefNone

\* Mutant: the last column of a tier wins.
ReplacesLast(c) == ColumnPref(c) <= best /\ ColumnPref(c) < prefNone

(* Only a strictly smaller preference replaces the best so far.            *)
Replaces(c) == ColumnPref(c) < best

(* The loop of ChooseOrderColumn, one column.                              *)
ScanColumn ==
  /\ phase = "collections" /\ eng \in {"mysql", "mariadb", "sqlite"}
  /\ pos <= Len(table.cols)
  /\ LET c == table.cols[pos] IN
       IF Replaces(c)
         THEN best' = ColumnPref(c) /\ orderCol' = c.name
         ELSE UNCHANGED <<best, orderCol>>
  /\ pos' = pos + 1
  /\ UNCHANGED <<eng, table, phase, desc, rows, shown, result>>

(* The end of ChooseOrderColumn: the simple PK when no column was chosen.  *)
ChooseOrderColumn ==
  /\ phase = "collections" /\ eng \in {"mysql", "mariadb", "sqlite"}
  /\ pos > Len(table.cols)
  /\ desc' = IF orderCol # NoColumn
               THEN [col |-> orderCol, byDate |-> best <= prefAnyDate]
               ELSE [col |-> table.pk, byDate |-> FALSE]
  /\ phase' = "listed"
  /\ UNCHANGED <<eng, table, pos, best, orderCol, rows, shown, result>>

(* The CTE "best" of tablesSQL: of the columns with a preference below 9   *)
(* the first by (pref, ordinal_position), or the simple PK.                *)
Candidates(t) == {j \in DOMAIN t.cols : ColumnPref(t.cols[j]) < prefNone}

FirstBest(t, j) ==
  /\ j \in Candidates(t)
  /\ \A k \in Candidates(t) :
       \/ ColumnPref(t.cols[j]) < ColumnPref(t.cols[k])
       \/ ColumnPref(t.cols[j]) = ColumnPref(t.cols[k]) /\ j <= k

PgBest(t, d) ==
  \/ /\ Candidates(t) = {}
     /\ d = [col |-> t.pk, byDate |-> FALSE]
  \/ \E j \in Candidates(t) :
       FirstBest(t, j) /\ d = [col |-> t.cols[j].name, byDate |-> TRUE]

PgCollections ==
  /\ phase = "collections" /\ eng = "postgres"
  /\ \E name \in {table.pk} \cup {table.cols[j].name : j \in DOMAIN table.cols} :
       \E byDate \in BOOLEAN :
         /\ desc' = [col |-> name, byDate |-> byDate]
         /\ PgBest(table, desc')
  /\ phase' = "listed"
  /\ UNCHANGED <<eng, table, pos, best, orderCol, rows, shown, result>>

-----------------------------------------------------------------------------
Field(name) == <<<<name>>>>

(* A field of the document's own that holds a bson.DateTime.               *)
IsDate(doc, name) == \E l \in doc : l.path = Field(name) /\ l.kind = "date"

(* mongoChooseOrderField: the first of the list that is a date in the one  *)
(* sample document; NoColumn: by _id.                                      *)
MongoChooses(doc, name) ==
  \/ name = NoColumn /\ \A k \in DOMAIN mongoOrderFields : ~IsDate(doc, mongoOrderFields[k])
  \/ \E k \in DOMAIN mongoOrderFields :
       /\ name = mongoOrderFields[k]
       /\ IsDate(doc, name)
       /\ \A m \in 1 .. k - 1 : ~IsDate(doc, mongoOrderFields[m])

(* FindOne takes any document; an empty collection has no sample.          *)
MongoCollections ==
  /\ phase = "collections" /\ eng = "mongo"
  /\ \E doc \in Docs \cup {{}}, name \in {mongoOrderFields[k] : k \in DOMAIN mongoOrderFields} \cup {NoColumn} :
       /\ MongoChooses(doc, name)
       /\ desc' = [col |-> name, byDate |-> name # NoColumn]
       /\ rows' = IF doc = {} THEN <<>> ELSE <<doc>>
  /\ phase' = "listed"
  /\ UNCHANGED <<eng, table, pos, best, orderCol, shown, result>>

-----------------------------------------------------------------------------
(* Every way a server may put n rows.                                      *)
Orders(n) == {p \in [1 .. n -> 1 .. n] : \A a, b \in 1 .. n : a # b => p[a] # p[b]}

(* Servers compare the kinds of two values first.                          *)
AtMost(v, w) == v[1] < w[1] \/ (v[1] = w[1] /\ v[2] <= w[2])

\* Mutant: the sort is ascending.
Ascending(p, key) == \A a, b \in DOMAIN p : a < b => AtMost(key[p[a]], key[p[b]])

Descending(p, key) == \A a, b \in DOMAIN p : a < b => AtMost(key[p[b]], key[p[a]])

(* ORDER BY ... DESC LIMIT RecentLimit; rows of equal keys in any order.   *)
Top(key) ==
  LET n == Len(key) IN
  {SubSeq(p, 1, IF n < RecentLimit THEN n ELSE RecentLimit)
     : p \in {q \in Orders(n) : Descending(q, key)}}

(* How the servers sort the cells of a column: NULL is the greatest value  *)
(* of Postgres and the least of the others.                                *)
SqlKey(cell) ==
  IF cell.kind # "null" THEN <<1, cell.at>> ELSE <<IF eng = "postgres" THEN 2 ELSE 0, 0>>

(* BSON: null and absent, then text, then ObjectId, then dates.            *)
BsonKey(doc, name) ==
  LET at(kind) == {l.at : l \in {m \in doc : m.path = Field(name) /\ m.kind = kind}}
  IN  IF at("date") # {} THEN <<3, CHOOSE x \in at("date") : TRUE>>
      ELSE IF at("id") # {} THEN <<2, CHOOSE x \in at("id") : TRUE>>
      ELSE IF at("text") # {} THEN <<1, CHOOSE x \in at("text") : TRUE>>
      ELSE <<0, 0>>

ColType(name) == (CHOOSE c \in {table.cols[j] : j \in DOMAIN table.cols} : c.name = name).type

(* The type json of Postgres has no order; its name may be chosen though.  *)
Unsortable == eng = "postgres" /\ desc.col # NoColumn /\ ColType(desc.col) = "json"

(* Recent of a relational engine.                                          *)
SqlRecent ==
  /\ phase = "listed" /\ eng \in Relational
  /\ \/ /\ Unsortable
        /\ phase' = "failed"
        /\ UNCHANGED <<rows, shown>>
     \/ /\ ~Unsortable
        /\ phase' = "shown"
        /\ \E n \in 0 .. MaxRows : \E r \in [1 .. n -> Cells] :
             /\ rows' = r
             /\ shown' \in Top([x \in 1 .. n |-> IF desc.col = NoColumn THEN <<0, 0>> ELSE SqlKey(r[x])])
  /\ UNCHANGED <<eng, table, pos, best, orderCol, desc, result>>

-----------------------------------------------------------------------------
FlatConcat(path) ==
  LET f[k \in 0 .. Len(path)] == IF k = 0 THEN <<>> ELSE f[k - 1] \o path[k]
  IN  f[Len(path)]

(* Where mongoFlattenInto stops: at the leaf, or at the sub-document that  *)
(* is too deep and becomes compact JSON whole.                             *)
Stop(leaf) ==
  SubSeq(leaf.path, 1, IF Len(leaf.path) <= mongoFlattenDepth THEN Len(leaf.path)
                       ELSE mongoFlattenDepth + 1)

\* Mutant: what lies deeper than the limit is dropped.
FlattenIntoDrops(doc) == {l \in doc : l.kind # "empty" /\ Len(l.path) <= mongoFlattenDepth}

(* The leaves that reach the row: a sub-document without fields adds       *)
(* nothing unless it is deep enough to become JSON.                        *)
FlattenInto(doc) == {l \in doc : l.kind # "empty" \/ Len(l.path) > mongoFlattenDepth}

Column(leaf) == FlatConcat(Stop(leaf))

(* Two paths of one document with the same dotted name: the last one       *)
(* written wins, and a Go map is walked in any order.                      *)
Twins(doc, leaf) == {l \in FlattenInto(doc) : Column(l) = Column(leaf) /\ Stop(l) # Stop(leaf)}

Wins(doc, leaf, deep) ==
  \A t \in Twins(doc, leaf) :
    IF deep THEN Len(Stop(leaf)) >= Len(Stop(t)) ELSE Len(Stop(leaf)) <= Len(Stop(t))

(* mongoBuildResultSet: the columns of any document, and for each document *)
(* what stands in them; nothing shows as the null sign.                    *)
BuildResultSet(docs, deep) ==
  LET cols == {Column(l) : l \in UNION {FlattenInto(docs[k]) : k \in DOMAIN docs}}
  IN  [k \in DOMAIN docs |-> [c \in cols |->
         {l \in FlattenInto(docs[k]) : Column(l) = c /\ Wins(docs[k], l, deep[k])}]]

(* Recent of MongoDB; the sample is one of the documents.                  *)
MongoRecent ==
  /\ phase = "listed" /\ eng = "mongo"
  /\ \E n \in 0 .. MaxRows : \E more \in [1 .. n -> Docs] :
       LET docs == rows \o more
           field == IF desc.col = NoColumn THEN "_id" ELSE desc.col
       IN /\ Len(docs) <= MaxRows /\ (rows = <<>> => n = 0)
          /\ rows' = docs
          /\ shown' \in Top([x \in DOMAIN docs |-> BsonKey(docs[x], field)])
          /\ \E deep \in [1 .. Len(shown') -> BOOLEAN] :
               result' = BuildResultSet([k \in DOMAIN shown' |-> docs[shown'[k]]], deep)
  /\ phase' = "shown"
  /\ UNCHANGED <<eng, table, pos, best, orderCol, desc>>

Collections == ScanColumn \/ ChooseOrderColumn \/ PgCollections \/ MongoCollections

Next == Collections \/ SqlRecent \/ MongoRecent

Spec == Init /\ [][Next]_vars

-----------------------------------------------------------------------------
(* relational.go:12-15, postgres.go:307-311: the loop in Go and the SQL of *)
(* Postgres choose the same column of the same table, ties included.       *)
DialectsAgree == phase # "collections" /\ eng \in Relational => PgBest(table, desc)

(* The date of a row in the column sorted by, 0 for none.                  *)
DateIn(x) ==
  IF eng = "mongo"
    THEN IF IsDate(rows[x], desc.col) THEN 1 + BsonKey(rows[x], desc.col)[2] ELSE 0
    ELSE IF rows[x].kind = "value" THEN 1 + rows[x].at ELSE 0

NewestFirst ==
  /\ \A a, b \in DOMAIN shown : a < b => DateIn(shown[a]) >= DateIn(shown[b])
  /\ \A x \in DOMAIN rows \ {shown[a] : a \in DOMAIN shown} :
       /\ Len(shown) = RecentLimit
       /\ \A a \in DOMAIN shown : DateIn(shown[a]) >= DateIn(x)

(* engine.go:205-208: with a column of dates the rows shown are the newest,*)
(* newest first; rows without a date come last, and in MongoDB so do those *)
(* whose field is no date.  Postgres puts NULLs first (see below).         *)
RecentIsNewest ==
  (/\ phase = "shown" /\ desc.byDate
   /\ eng = "postgres" => \A x \in DOMAIN rows : rows[x].kind # "null")
  => NewestFirst

(* The same promise without the exceptions: in Postgres rows without a     *)
(* date push the newest out, and a column of type json called "data" is    *)
(* chosen by its name and cannot be sorted by at all.                      *)
PromiseOfRecent == phase \in {"shown", "failed"} /\ desc.byDate => phase = "shown" /\ NewestFirst

(* mongo.go:445-458: no part of a document is lost on the way to the row,  *)
(* however deep it lies and whatever the other documents look like, but a  *)
(* sub-document without fields and the other one of two paths that are     *)
(* written alike.                                                          *)
NothingLost ==
  phase = "shown" /\ eng = "mongo" =>
    \A k \in DOMAIN shown : \A l \in rows[shown[k]] :
      \/ \E c \in DOMAIN result[k] : c = Column(l) /\ l \in result[k][c]
      \/ l.kind = "empty"
      \/ Twins(rows[shown[k]], l) # {}
=============================================================================
