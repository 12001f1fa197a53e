---------------------------- MODULE RecentProofs ----------------------------
(***************************************************************************)
(* Proofs about the choice of the column Recent sorts by, for tables with  *)
(* any columns: the loop of ChooseOrderColumn finds what the SQL of        *)
(* Postgres finds.  And about what Recent then shows, for any rows and     *)
(* documents: the newest, and all of them.                                 *)
(***************************************************************************)
EXTENDS Recent, FiniteSetTheorems, TLAPS

Pref(k) == ColumnPref(table.cols[k])

(* What the loop has found among the columns before pos: none that counts,   *)
(* or the first one of the least preference.                               *)
Found ==
  \/ /\ best = prefNone /\ orderCol = NoColumn
     /\ \A k \in 1 .. pos - 1 : Pref(k) = prefNone
  \/ /\ best < prefNone
     /\ \E j \in 1 .. pos - 1 :
          /\ orderCol = table.cols[j].name /\ Pref(j) = best
          /\ \A k \in 1 .. pos - 1 : best < Pref(k) \/ (best = Pref(k) /\ j <= k)

IndInv == TypeOK /\ (phase = "collections" => Found) /\ DialectsAgree

(* A preference is one of five, and says whether a column is a candidate.  *)
LEMMA PrefValues ==
  ASSUME NEW c
  PROVE  ColumnPref(c) \in {1, 2, 3, prefAnyDate, prefNone}
  BY DEF ColumnPref, prefAnyDate, prefNone

(* A sequence is a function on its indices.                                *)
LEMMA SeqFacts ==
  ASSUME NEW S, NEW s \in Seq(S)
  PROVE  /\ Len(s) \in Nat /\ DOMAIN s = 1 .. Len(s)
         /\ \A k \in 1 .. Len(s) : s[k] \in S
  OBVIOUS

(* What the assumption says of a table.                                    *)
LEMMA TableFacts ==
  ASSUME NEW t \in Tables
  PROVE  /\ t.cols \in Seq([name : STRING \ {NoColumn}, type : Types])
         /\ t.pk \in STRING
         /\ Len(t.cols) \in Nat
         /\ DOMAIN t.cols = 1 .. Len(t.cols)
         /\ \A k \in 1 .. Len(t.cols) : t.cols[k].name \in STRING /\ t.cols[k].name # NoColumn
<1>1. /\ t.cols \in Seq([name : STRING \ {NoColumn}, type : Types])
      /\ t.pk \in STRING
  BY RecentAssumption
<1> DEFINE C == [name : STRING \ {NoColumn}, type : Types]  s == t.cols
<1> HIDE DEF C, s
<1>2. s \in Seq(C)
  BY <1>1 DEF C, s
<1>3. /\ Len(s) \in Nat /\ DOMAIN s = 1 .. Len(s)
      /\ \A k \in 1 .. Len(s) : s[k] \in C
  BY <1>2, SeqFacts
<1>4. \A c \in C : c.name \in STRING /\ c.name # NoColumn
  BY DEF C
<1>5. QED
  BY <1>1, <1>3, <1>4 DEF s

(* Every variable of the choice keeps its type.                            *)
LEMMA TypeStep == TypeOK /\ [Next]_vars => TypeOK'
<1> SUFFICES ASSUME TypeOK, [Next]_vars PROVE TypeOK'
  OBVIOUS
<1> DEFINE n == Len(table.cols)
<1>0. /\ table \in Tables /\ n \in Nat /\ table.pk \in STRING
      /\ \A k \in 1 .. n : table.cols[k].name \in STRING
      /\ DOMAIN table.cols = 1 .. n
  BY TableFacts DEF TypeOK
<1>1. CASE ScanColumn
  <2>1. /\ pos' = pos + 1 /\ pos \in 1 .. n + 1 /\ pos <= n
        /\ UNCHANGED <<eng, table, phase, desc>>
    BY <1>1 DEF ScanColumn, TypeOK
  <2> DEFINE c == table.cols[pos]
  <2>2. ColumnPref(c) \in {1, 2, 3, prefAnyDate, prefNone} /\ c.name \in STRING
    BY <1>0, <2>1, PrefValues
  <2>3. \/ best' = ColumnPref(c) /\ orderCol' = c.name
        \/ UNCHANGED <<best, orderCol>>
    BY <1>1 DEF ScanColumn
  <2>4. pos' \in 1 .. n + 1
    BY <1>0, <2>1
  <2>5. QED
    BY <2>1, <2>2, <2>3, <2>4 DEF TypeOK
<1>2. CASE ChooseOrderColumn
  <2>1. desc' \in [col : STRING \cup {NoColumn}, byDate : BOOLEAN]
    <3>1. CASE orderCol # NoColumn
      <4>1. desc' = [col |-> orderCol, byDate |-> best <= prefAnyDate]
        BY <1>2, <3>1 DEF ChooseOrderColumn
      <4>2. (best <= prefAnyDate) \in BOOLEAN
        BY DEF TypeOK, prefAnyDate, prefNone
      <4>3. QED
        BY <4>1, <4>2 DEF TypeOK
    <3>2. CASE orderCol = NoColumn
      BY <1>0, <1>2, <3>2 DEF ChooseOrderColumn
    <3>3. QED
      BY <3>1, <3>2
  <2>2. QED
    BY <1>2, <2>1 DEF ChooseOrderColumn, TypeOK
<1>3. CASE PgCollections
  <2>1. desc' \in [col : STRING \cup {NoColumn}, byDate : BOOLEAN]
    BY <1>0, <1>3 DEF PgCollections
  <2>2. QED
    BY <1>3, <2>1 DEF PgCollections, TypeOK
<1>4. CASE MongoCollections
  <2>1. PICK name \in {mongoOrderFields[k] : k \in DOMAIN mongoOrderFields} \cup {NoColumn} :
          desc' = [col |-> name, byDate |-> name # NoColumn]
    BY <1>4 DEF MongoCollections
  <2>2. name \in STRING \cup {NoColumn}
    <3> DEFINE S == STRING \ {NoColumn}
    <3> HIDE DEF S
    <3>1. mongoOrderFields \in Seq(S)
      BY RecentAssumption DEF S
    <3>2. \A k \in DOMAIN mongoOrderFields : mongoOrderFields[k] \in S
      BY <3>1, SeqFacts
    <3>3. QED
      BY <2>1, <3>2 DEF S
  <2>3. QED
    BY <1>4, <2>1, <2>2 DEF MongoCollections, TypeOK
<1>5. CASE SqlRecent
  BY <1>5 DEF SqlRecent, TypeOK
<1>6. CASE MongoRecent
  BY <1>6 DEF MongoRecent, TypeOK
<1>7. CASE UNCHANGED vars
  BY <1>7 DEF vars, TypeOK
<1>8. QED
  BY <1>1, <1>2, <1>3, <1>4, <1>5, <1>6, <1>7 DEF Next, Collections

(* One more column: it replaces the best, or leaves the first best first.  *)
LEMMA ScanFinds == TypeOK /\ Found /\ ScanColumn => Found'
<1> SUFFICES ASSUME TypeOK, Found, ScanColumn PROVE Found'
  OBVIOUS
<1> DEFINE n == Len(table.cols)
<1>1. /\ pos \in 1 .. n /\ pos' = pos + 1 /\ table' = table /\ n \in Nat
  BY TableFacts DEF ScanColumn, TypeOK
<1>2. \A k : Pref(k) \in {1, 2, 3, 4, 9}
  BY PrefValues DEF Pref, prefAnyDate, prefNone
<1>3. best \in {1, 2, 3, 4, 9} /\ prefNone = 9
  BY DEF TypeOK, prefAnyDate, prefNone
<1>4. 1 .. pos' - 1 = (1 .. pos - 1) \cup {pos}
  BY <1>1
<1>5. \A k : Pref(k)' = Pref(k)
  BY <1>1 DEF Pref
<1>6. \A k \in 1 .. pos - 1 : best <= Pref(k) /\ k < pos
  BY <1>1, <1>2, <1>3 DEF Found
<1>7. CASE Pref(pos) < best
  <2>1. best' = Pref(pos) /\ orderCol' = table.cols[pos].name
    BY <1>7 DEF ScanColumn, Replaces, Pref
  <2>2. best' < prefNone
    BY <1>2, <1>3, <1>7, <2>1
  <2>3. \A k \in 1 .. pos' - 1 : best' < Pref(k) \/ (best' = Pref(k) /\ pos <= k)
    BY <1>1, <1>2, <1>3, <1>4, <1>6, <1>7, <2>1
  <2>4. PICK j \in 1 .. n : j = pos
    BY <1>1
  <2>5. orderCol' = table'.cols[j].name /\ Pref(j)' = best' /\ j \in 1 .. pos' - 1
    BY <1>1, <1>5, <2>1, <2>4
  <2>6. \A k \in 1 .. pos' - 1 : best' < Pref(k)' \/ (best' = Pref(k)' /\ j <= k)
    BY <1>5, <2>3, <2>4
  <2>7. QED
    BY <2>2, <2>5, <2>6 DEF Found, prefNone
<1>8. CASE ~(Pref(pos) < best)
  <2>1. UNCHANGED <<best, orderCol>>
    BY <1>8 DEF ScanColumn, Replaces, Pref
  <2>2. best <= Pref(pos)
    BY <1>2, <1>3, <1>8
  <2>3. CASE /\ best = prefNone /\ orderCol = NoColumn
             /\ \A k \in 1 .. pos - 1 : Pref(k) = prefNone
    <3>1. Pref(pos) = prefNone
      BY <1>2, <1>3, <2>2, <2>3
    <3>2. \A k \in 1 .. pos' - 1 : Pref(k)' = prefNone
      BY <1>4, <1>5, <2>3, <3>1
    <3>3. QED
      BY <2>1, <2>3, <3>2 DEF Found, prefNone
  <2>4. CASE best < prefNone
    <3>1. PICK j \in 1 .. pos - 1 :
            /\ orderCol = table.cols[j].name /\ Pref(j) = best
            /\ \A k \in 1 .. pos - 1 : best < Pref(k) \/ (best = Pref(k) /\ j <= k)
      BY <1>3, <2>4 DEF Found
    <3>2. j \in 1 .. pos' - 1 /\ j <= pos
      BY <1>1, <1>4
    <3>3. \A k \in 1 .. pos' - 1 : best < Pref(k) \/ (best = Pref(k) /\ j <= k)
      BY <1>2, <1>3, <1>4, <2>2, <3>1, <3>2
    <3>4. \A k \in 1 .. pos' - 1 : best' < Pref(k)' \/ (best' = Pref(k)' /\ j <= k)
      BY <1>5, <2>1, <3>3
    <3>5. orderCol' = table'.cols[j].name /\ Pref(j)' = best'
      BY <1>1, <1>5, <2>1, <3>1
    <3>6. best' < prefNone
      BY <2>1, <2>4
    <3>7. QED
      BY <3>2, <3>4, <3>5, <3>6 DEF Found, prefNone
  <2>5. QED
    BY <1>3, <2>3, <2>4 DEF Found
<1>9. QED
  BY <1>7, <1>8

(* The end of the loop is the answer of the SQL.                           *)
LEMMA LoopIsSql ==
  ASSUME TypeOK, Found, ChooseOrderColumn
  PROVE  PgBest(table, desc')
<1> DEFINE n == Len(table.cols)
<1>0. /\ n \in Nat /\ DOMAIN table.cols = 1 .. n
      /\ \A k \in 1 .. n : table.cols[k].name # NoColumn
  BY TableFacts DEF TypeOK
<1>10. pos \in 1 .. n + 1 /\ pos > n
  BY DEF ChooseOrderColumn, TypeOK
<1> HIDE DEF n
<1>1. pos = n + 1 /\ n \in Nat
  BY <1>0, <1>10
<1>2. 1 .. pos - 1 = 1 .. n
  BY <1>1
<1>3. best \in {1, 2, 3, 4, 9} /\ prefNone = 9 /\ prefAnyDate = 4
  BY DEF TypeOK, prefAnyDate, prefNone
<1>4. \A k : Pref(k) \in {1, 2, 3, 4, 9}
  BY PrefValues DEF Pref, prefAnyDate, prefNone
<1>5. Candidates(table) = {k \in 1 .. n : Pref(k) < 9}
  BY <1>0, <1>3 DEF Candidates, Pref
<1>6. CASE /\ best = prefNone /\ orderCol = NoColumn
           /\ \A k \in 1 .. pos - 1 : Pref(k) = prefNone
  <2>0. \A k \in 1 .. n : Pref(k) = 9
    BY <1>1, <1>3, <1>6
  <2>1. Candidates(table) = {}
    BY <1>5, <2>0
  <2>2. desc' = [col |-> table.pk, byDate |-> FALSE]
    BY <1>6 DEF ChooseOrderColumn
  <2>3. QED
    BY <2>1, <2>2 DEF PgBest
<1>7. CASE best < prefNone
  <2>1. PICK j \in 1 .. pos - 1 :
          /\ orderCol = table.cols[j].name /\ Pref(j) = best
          /\ \A k \in 1 .. pos - 1 : best < Pref(k) \/ (best = Pref(k) /\ j <= k)
    BY <1>3, <1>7 DEF Found
  <2>2. j \in Candidates(table)
    BY <1>2, <1>3, <1>5, <1>7, <2>1
  <2>3. FirstBest(table, j)
    BY <1>2, <1>5, <2>1, <2>2 DEF FirstBest, Pref
  <2>4. best <= prefAnyDate
    BY <1>3, <1>7
  <2>5. orderCol # NoColumn
    BY <1>0, <1>2, <2>1
  <2>6. desc' = [col |-> table.cols[j].name, byDate |-> TRUE]
    BY <2>1, <2>4, <2>5 DEF ChooseOrderColumn
  <2>7. QED
    BY <2>2, <2>3, <2>6 DEF PgBest
<1>8. QED
  BY <1>3, <1>6, <1>7 DEF Found

(* The invariant of every reachable state.                                 *)
THEOREM InvHolds == Spec => []IndInv
<1>1. ASSUME Init PROVE IndInv
  <2>1. Len(table.cols) \in Nat
    BY <1>1, TableFacts DEF Init
  <2>11. pos = 1 /\ best = prefNone /\ orderCol = NoColumn
    BY <1>1 DEF Init
  <2>12. pos \in 1 .. Len(table.cols) + 1
    BY <2>1, <2>11
  <2>13. desc = [col |-> NoColumn, byDate |-> FALSE] /\ eng \in Engines /\ table \in Tables
    BY <1>1 DEF Init, NoDesc
  <2>2. TypeOK
    BY <1>1, <2>11, <2>12, <2>13 DEF Init, TypeOK
  <2>3. Found
    <3>1. 1 .. pos - 1 = {}
      BY <2>11
    <3>2. QED
      BY <2>11, <3>1 DEF Found
  <2>4. DialectsAgree
    BY <1>1 DEF Init, DialectsAgree
  <2>5. QED
    BY <2>2, <2>3, <2>4 DEF IndInv
<1>2. ASSUME IndInv, [Next]_vars PROVE IndInv'
  <2>1. TypeOK'
    BY <1>2, TypeStep DEF IndInv
  <2>2. CASE ScanColumn
    <3>1. phase = "collections" /\ phase' = phase
      BY <2>2 DEF ScanColumn
    <3>2. Found'
      BY <1>2, <2>2, <3>1, ScanFinds DEF IndInv
    <3>3. QED
      BY <2>1, <3>1, <3>2 DEF IndInv, DialectsAgree
  <2>3. CASE ChooseOrderColumn
    <3>1. phase = "collections" /\ phase' = "listed" /\ table' = table
      BY <2>3 DEF ChooseOrderColumn
    <3>2. PgBest(table, desc')
      BY <1>2, <2>3, <3>1, LoopIsSql DEF IndInv
    <3>3. PgBest(table, desc)'
      BY <3>1, <3>2 DEF PgBest, Candidates, FirstBest
    <3>4. QED
      BY <2>1, <3>1, <3>3 DEF IndInv, DialectsAgree
  <2>4. CASE PgCollections
    <3>1. phase' = "listed" /\ table' = table /\ PgBest(table, desc')
      BY <2>4 DEF PgCollections
    <3>2. PgBest(table, desc)'
      BY <3>1 DEF PgBest, Candidates, FirstBest
    <3>3. QED
      BY <2>1, <3>1, <3>2 DEF IndInv, DialectsAgree
  <2>5. CASE MongoCollections
    <3>1. phase' = "listed" /\ eng' = "mongo"
      BY <2>5 DEF MongoCollections
    <3>2. QED
      BY <2>1, <3>1 DEF IndInv, DialectsAgree, Relational
  <2>6. CASE SqlRecent
    <3>1. /\ phase = "listed" /\ phase' # "collections"
          /\ UNCHANGED <<eng, table, desc>>
      BY <2>6 DEF SqlRecent
    <3>2. DialectsAgree'
      BY <1>2, <3>1 DEF IndInv, DialectsAgree, PgBest, Candidates, FirstBest
    <3>3. QED
      BY <2>1, <3>1, <3>2 DEF IndInv
  <2>7. CASE MongoRecent
    <3>1. phase' = "shown" /\ eng' = "mongo"
      BY <2>7 DEF MongoRecent
    <3>2. QED
      BY <2>1, <3>1 DEF IndInv, DialectsAgree, Relational
  <2>8. CASE UNCHANGED vars
    <3>1. Found' = Found /\ DialectsAgree' = DialectsAgree /\ phase' = phase
      BY <2>8 DEF vars, Found, Pref, DialectsAgree, PgBest, Candidates, FirstBest
    <3>2. QED
      BY <1>2, <2>1, <3>1 DEF IndInv
  <2>9. QED
    BY <1>2, <2>2, <2>3, <2>4, <2>5, <2>6, <2>7, <2>8 DEF Next, Collections
<1>3. QED
  BY <1>1, <1>2, PTL DEF Spec

(* relational.go:12-15 for tables with any columns of any names and types: *)
(* MySQL, MariaDB and SQLite sort by the column Postgres would sort by.    *)
THEOREM SameColumn == Spec => []DialectsAgree
<1>1. IndInv => DialectsAgree
  BY DEF IndInv
<1>2. QED
  BY <1>1, InvHolds, PTL

-----------------------------------------------------------------------------
(* What Collections leaves to Recent: a column of dates has a name, and    *)
(* the sample of MongoDB is a document of the collection.                  *)
Described ==
  phase = "listed" =>
    /\ desc.byDate => desc.col # NoColumn
    /\ eng = "mongo" => rows \in Seq(Docs)

(* n different numbers of 1 .. n are all of them.                          *)
LEMMA OrderIsOnto ==
  ASSUME NEW n \in Nat, NEW p \in Orders(n)
  PROVE  p \in [1 .. n -> 1 .. n] /\ \A x \in 1 .. n : \E c \in 1 .. n : p[c] = x
<1>1. p \in [1 .. n -> 1 .. n] /\ \A a, b \in 1 .. n : a # b => p[a] # p[b]
  BY DEF Orders
<1>2. p \in Injection(1 .. n, 1 .. n)
  BY <1>1 DEF Injection, IsInjective
<1>3. IsFiniteSet(1 .. n)
  BY FS_Interval
<1>4. p \in Surjection(1 .. n, 1 .. n)
  BY <1>2, <1>3, FS_Injection
<1>5. QED
  BY <1>1, <1>4 DEF Surjection

(* The first m of n numbers.                                               *)
First(p, m) == [a \in 1 .. m |-> p[a]]

LEMMA FirstOnes ==
  ASSUME NEW n \in Nat, NEW m \in Nat, m <= n, NEW p \in [1 .. n -> 1 .. n]
  PROVE  /\ First(p, m) \in Seq(1 .. n)
         /\ DOMAIN First(p, m) = 1 .. m /\ Len(First(p, m)) = m
         /\ \A a \in 1 .. m : First(p, m)[a] = p[a] /\ a \in 1 .. n
<1>1. \A a \in 1 .. m : a \in 1 .. n
  OBVIOUS
<1>2. First(p, m) \in [1 .. m -> 1 .. n]
  BY <1>1 DEF First
<1>3. First(p, m) \in Seq(1 .. n)
  BY <1>2
<1>4. DOMAIN First(p, m) = 1 .. m /\ Len(First(p, m)) = m
  BY <1>2
<1>5. QED
  BY <1>1, <1>3, <1>4 DEF First

(* ORDER BY ... DESC LIMIT, whatever the server does with equal keys: what *)
(* it returns is in order, and a row it leaves out is left out because of  *)
(* the limit, with a key that is not greater than any of those returned.   *)
TopOf(key, s) ==
  /\ s \in Seq(DOMAIN key)
  /\ \A a, b \in DOMAIN s : a < b => AtMost(key[s[b]], key[s[a]])
  /\ \A x \in DOMAIN key \ {s[a] : a \in DOMAIN s} :
       /\ Len(s) = RecentLimit
       /\ \A a \in DOMAIN s : AtMost(key[x], key[s[a]])

LEMMA TopFacts ==
  ASSUME NEW S, NEW key \in Seq(S), NEW s \in Top(key)
  PROVE  TopOf(key, s)
<1> DEFINE n == Len(key)
           m == IF n < RecentLimit THEN n ELSE RecentLimit
<1>1. n \in Nat /\ DOMAIN key = 1 .. n
  BY SeqFacts
<1>2. RecentLimit \in Nat
  BY RecentAssumption
<1>3. PICK p \in Orders(n) : Descending(p, key) /\ s = SubSeq(p, 1, m)
  BY DEF Top
<1> HIDE DEF n
<1>4. /\ p \in [1 .. n -> 1 .. n]
      /\ \A x \in 1 .. n : \E c \in 1 .. n : p[c] = x
  BY <1>1, <1>3, OrderIsOnto
<1>5. m \in Nat /\ m <= n /\ m <= RecentLimit /\ (m # RecentLimit => m = n)
  BY <1>1, <1>2
<1> HIDE DEF m
<1>6. s = First(p, m)
  BY <1>1, <1>3, <1>4, <1>5 DEF First
<1>7. /\ s \in Seq(1 .. n) /\ DOMAIN s = 1 .. m /\ Len(s) = m
      /\ \A a \in 1 .. m : s[a] = p[a] /\ a \in 1 .. n
  BY <1>1, <1>4, <1>5, <1>6, FirstOnes
<1>8. \A a, b \in 1 .. n : a < b => AtMost(key[p[b]], key[p[a]])
  BY <1>3, <1>4 DEF Descending
<1>9. \A a, b \in DOMAIN s : a < b => AtMost(key[s[b]], key[s[a]])
  BY <1>7, <1>8
<1>10. ASSUME NEW x \in DOMAIN key, \A a \in DOMAIN s : x # s[a]
       PROVE  Len(s) = RecentLimit /\ \A a \in DOMAIN s : AtMost(key[x], key[s[a]])
  <2>1. PICK c \in 1 .. n : p[c] = x
    BY <1>1, <1>4, <1>10
  <2>2. c > m /\ m # n
    BY <1>1, <1>5, <1>7, <1>10, <2>1
  <2>3. \A a \in 1 .. m : a < c
    BY <1>1, <1>5, <2>2
  <2>4. QED
    BY <1>5, <1>7, <1>8, <2>1, <2>2, <2>3
<1>11. QED
  BY <1>1, <1>7, <1>9, <1>10 DEF TopOf

(* The rows shown by keys that never put a newer date behind an older one. *)
LEMMA TopIsNewest ==
  ASSUME NEW key, TopOf(key, shown), DOMAIN key = DOMAIN rows,
         \A x \in DOMAIN rows : DateIn(x) \in Nat,
         \A x, y \in DOMAIN rows : AtMost(key[x], key[y]) => DateIn(x) <= DateIn(y)
  PROVE  NewestFirst
<1>1. \A a \in DOMAIN shown : shown[a] \in DOMAIN rows
  BY SeqFacts DEF TopOf
<1>2. \A a, b \in DOMAIN shown : a < b => DateIn(shown[b]) <= DateIn(shown[a])
  BY <1>1 DEF TopOf
<1>3. \A x \in DOMAIN rows \ {shown[a] : a \in DOMAIN shown} :
        /\ Len(shown) = RecentLimit
        /\ \A a \in DOMAIN shown : DateIn(x) <= DateIn(shown[a])
  BY <1>1 DEF TopOf
<1>4. QED
  BY <1>1, <1>2, <1>3 DEF NewestFirst

(* The keys of a table's rows order them by date, but for the NULLs of     *)
(* Postgres.                                                               *)
LEMMA SqlNewest ==
  ASSUME eng \in Relational,
         NEW n \in Nat, rows \in [1 .. n -> Cells],
         shown \in Top([x \in 1 .. n |-> SqlKey(rows[x])]),
         eng = "postgres" => \A x \in DOMAIN rows : rows[x].kind # "null"
  PROVE  NewestFirst
<1> DEFINE key == [x \in 1 .. n |-> SqlKey(rows[x])]
           S == {SqlKey(rows[x]) : x \in 1 .. n}
<1>1. eng # "mongo"
  BY DEF Relational
<1>2. \A x \in 1 .. n : /\ rows[x].kind \in {"null", "value"} /\ rows[x].at \in Nat
                        /\ eng = "postgres" => rows[x].kind # "null"
  BY RecentAssumption
<1>3. \A x \in 1 .. n :
        /\ rows[x].kind = "value" => key[x] = <<1, rows[x].at>>
        /\ rows[x].kind = "null" => key[x] = <<0, 0>>
  BY <1>2 DEF SqlKey
<1>4. \A x \in 1 .. n : DateIn(x) = IF rows[x].kind = "value" THEN 1 + rows[x].at ELSE 0
  BY <1>1 DEF DateIn
<1>5. key \in Seq(S)
  OBVIOUS
<1>6. TopOf(key, shown)
  <2> HIDE DEF S
  <2>1. QED
    BY <1>5, TopFacts
<1>7. DOMAIN rows = 1 .. n /\ DOMAIN key = 1 .. n
  OBVIOUS
<1> HIDE DEF key, S
<1>8. \A x \in 1 .. n : DateIn(x) \in Nat
  BY <1>2, <1>4
<1>9. ASSUME NEW x \in 1 .. n, NEW y \in 1 .. n, AtMost(key[x], key[y])
      PROVE  DateIn(x) <= DateIn(y)
  <2>1. CASE rows[x].kind = "null"
    BY <1>4, <1>8, <2>1
  <2>2. CASE rows[x].kind = "value" /\ rows[y].kind = "value"
    <3>1. key[x] = <<1, rows[x].at>> /\ key[y] = <<1, rows[y].at>>
      BY <1>3, <2>2
    <3>2. rows[x].at <= rows[y].at
      BY <1>9, <3>1 DEF AtMost
    <3>3. QED
      BY <1>2, <1>4, <2>2, <3>2
  <2>3. CASE rows[x].kind = "value" /\ rows[y].kind = "null"
    <3>1. key[x] = <<1, rows[x].at>> /\ key[y] = <<0, 0>>
      BY <1>3, <2>3
    <3>2. QED
      BY <1>9, <3>1 DEF AtMost
  <2>4. QED
    BY <1>2, <2>1, <2>2, <2>3
<1>10. QED
  BY <1>6, <1>7, <1>8, <1>9, TopIsNewest

(* Of two documents the one that holds a date in the field is the greater, *)
(* and of two that hold one the later.                                     *)
LEMMA BsonFacts ==
  ASSUME NEW d \in Docs, NEW name
  PROVE  /\ IsDate(d, name) => BsonKey(d, name)[1] = 3 /\ BsonKey(d, name)[2] \in Nat
         /\ ~IsDate(d, name) => BsonKey(d, name)[1] \in {0, 1, 2}
<1> DEFINE at(kind) == {l.at : l \in {m \in d : m.path = Field(name) /\ m.kind = kind}}
<1>1. at("date") # {} <=> IsDate(d, name)
  BY DEF IsDate
<1>2. at("date") \subseteq Nat
  BY RecentAssumption
<1>3. BsonKey(d, name) =
        IF at("date") # {} THEN <<3, CHOOSE x \in at("date") : TRUE>>
        ELSE IF at("id") # {} THEN <<2, CHOOSE x \in at("id") : TRUE>>
        ELSE IF at("text") # {} THEN <<1, CHOOSE x \in at("text") : TRUE>>
        ELSE <<0, 0>>
  BY DEF BsonKey
<1> HIDE DEF at
<1>4. at("date") # {} => (CHOOSE x \in at("date") : TRUE) \in Nat
  BY <1>2
<1>5. QED
  BY <1>1, <1>3, <1>4

LEMMA MongoNewest ==
  ASSUME eng = "mongo", rows \in Seq(Docs),
         shown \in Top([x \in DOMAIN rows |-> BsonKey(rows[x], desc.col)])
  PROVE  NewestFirst
<1> DEFINE n == Len(rows)
           key == [x \in DOMAIN rows |-> BsonKey(rows[x], desc.col)]
           S == {BsonKey(rows[x], desc.col) : x \in 1 .. n}
<1>1. n \in Nat /\ DOMAIN rows = 1 .. n /\ \A x \in 1 .. n : rows[x] \in Docs
  BY SeqFacts
<1>2. key \in Seq(S) /\ DOMAIN key = 1 .. n
  BY <1>1
<1>3. TopOf(key, shown)
  <2> HIDE DEF S
  <2>1. QED
    BY <1>2, TopFacts
<1>4. \A x \in 1 .. n : key[x] = BsonKey(rows[x], desc.col)
  BY <1>1
<1> HIDE DEF n, key, S
<1>5. \A x \in 1 .. n :
        /\ IsDate(rows[x], desc.col) => key[x][1] = 3 /\ key[x][2] \in Nat
        /\ ~IsDate(rows[x], desc.col) => key[x][1] \in {0, 1, 2}
        /\ DateIn(x) = IF IsDate(rows[x], desc.col) THEN 1 + key[x][2] ELSE 0
  BY <1>1, <1>4, BsonFacts DEF DateIn
<1>6. \A x \in 1 .. n : DateIn(x) \in Nat
  BY <1>5
<1>7. ASSUME NEW x \in 1 .. n, NEW y \in 1 .. n, AtMost(key[x], key[y])
      PROVE  DateIn(x) <= DateIn(y)
  <2>1. CASE ~IsDate(rows[x], desc.col)
    BY <1>5, <1>6, <2>1
  <2>2. CASE IsDate(rows[x], desc.col)
    <3>1. key[x][1] = 3 /\ key[x][2] \in Nat /\ DateIn(x) = 1 + key[x][2]
      BY <1>5, <2>2
    <3>2. IsDate(rows[y], desc.col) /\ key[x][2] <= key[y][2]
      BY <1>5, <1>7, <3>1 DEF AtMost
    <3>3. key[y][2] \in Nat /\ DateIn(y) = 1 + key[y][2]
      BY <1>5, <3>2
    <3>4. QED
      BY <3>1, <3>2, <3>3
  <2>3. QED
    BY <2>1, <2>2
<1>8. QED
  BY <1>1, <1>2, <1>3, <1>6, <1>7, TopIsNewest

(* What Recent did is still to be seen: the rows in the order of their     *)
(* keys, and in MongoDB the table made of them.                            *)
SqlShown ==
  \E n \in Nat :
    /\ rows \in [1 .. n -> Cells]
    /\ desc.byDate => shown \in Top([x \in 1 .. n |-> SqlKey(rows[x])])

MongoShown ==
  /\ rows \in Seq(Docs)
  /\ desc.byDate => shown \in Top([x \in DOMAIN rows |-> BsonKey(rows[x], desc.col)])
  /\ \E deep : result = BuildResultSet([k \in DOMAIN shown |-> rows[shown[k]]], deep)

Shown ==
  phase = "shown" =>
    /\ eng \in Relational => SqlShown
    /\ eng = "mongo" => MongoShown

(* A column of dates the SQL of Postgres would choose has a name.          *)
LEMMA DatesHaveName ==
  ASSUME NEW t \in Tables, NEW d, PgBest(t, d), d.byDate
  PROVE  d.col # NoColumn
<1>1. PICK j \in Candidates(t) : d = [col |-> t.cols[j].name, byDate |-> TRUE]
  BY DEF PgBest
<1>2. t.cols[j].name # NoColumn
  BY <1>1, TableFacts DEF Candidates
<1>3. QED
  BY <1>1, <1>2

LEMMA DescribedStep == IndInv /\ IndInv' /\ [Next]_vars /\ Described => Described'
<1> SUFFICES ASSUME IndInv, IndInv', [Next]_vars, Described, phase' = "listed"
             PROVE  /\ desc'.byDate => desc'.col # NoColumn
                    /\ eng' = "mongo" => rows' \in Seq(Docs)
  BY DEF Described
<1>1. CASE ChooseOrderColumn \/ PgCollections
  <2>1. eng' \in Relational /\ eng' # "mongo"
    BY <1>1 DEF ChooseOrderColumn, PgCollections, Relational
  <2>2. PgBest(table', desc') /\ table' \in Tables
    <3>1. PgBest(table, desc)'
      BY <2>1 DEF IndInv, DialectsAgree
    <3>2. PgBest(table', desc')
      BY <3>1 DEF PgBest, Candidates, FirstBest
    <3>3. QED
      BY <3>2 DEF IndInv, TypeOK
  <2>3. QED
    BY <2>1, <2>2, DatesHaveName
<1>2. CASE MongoCollections
  <2>1. PICK doc \in Docs \cup {{}},
             name \in {mongoOrderFields[k] : k \in DOMAIN mongoOrderFields} \cup {NoColumn} :
          /\ desc' = [col |-> name, byDate |-> name # NoColumn]
          /\ rows' = IF doc = {} THEN <<>> ELSE <<doc>>
    BY <1>2 DEF MongoCollections
  <2>2. rows' \in Seq(Docs)
    BY <2>1
  <2>3. QED
    BY <2>1, <2>2
<1>3. CASE ScanColumn \/ SqlRecent \/ MongoRecent
  BY <1>3 DEF ScanColumn, SqlRecent, MongoRecent
<1>4. CASE UNCHANGED vars
  BY <1>4 DEF vars, Described
<1>5. QED
  BY <1>1, <1>2, <1>3, <1>4 DEF Next, Collections

LEMMA ShownStep == IndInv /\ [Next]_vars /\ Described /\ Shown => Shown'
<1> SUFFICES ASSUME IndInv, [Next]_vars, Described, Shown, phase' = "shown"
             PROVE  /\ eng' \in Relational => SqlShown'
                    /\ eng' = "mongo" => MongoShown'
  BY DEF Shown
<1>1. CASE Collections
  BY <1>1 DEF Collections, ScanColumn, ChooseOrderColumn, PgCollections, MongoCollections
<1>2. CASE SqlRecent
  <2>1. /\ eng' = eng /\ desc' = desc /\ eng # "mongo"
        /\ desc.byDate => desc.col # NoColumn
    BY <1>2 DEF SqlRecent, Relational, Described
  <2>2. PICK n \in 0 .. MaxRows : \E r \in [1 .. n -> Cells] :
             /\ rows' = r
             /\ shown' \in Top([x \in 1 .. n |-> IF desc.col = NoColumn THEN <<0, 0>> ELSE SqlKey(r[x])])
    BY <1>2 DEF SqlRecent
  <2>3. PICK r \in [1 .. n -> Cells] :
             /\ rows' = r
             /\ shown' \in Top([x \in 1 .. n |-> IF desc.col = NoColumn THEN <<0, 0>> ELSE SqlKey(r[x])])
    BY <2>2
  <2>4. n \in Nat
    OBVIOUS
  <2>5. ASSUME desc.byDate
        PROVE  shown' \in Top([x \in 1 .. n |-> SqlKey(rows[x])'])
    <3>1. \A x \in 1 .. n : SqlKey(r[x]) = SqlKey(rows[x])'
      BY <2>1, <2>3 DEF SqlKey
    <3>2. [x \in 1 .. n |-> IF desc.col = NoColumn THEN <<0, 0>> ELSE SqlKey(r[x])]
            = [x \in 1 .. n |-> SqlKey(rows[x])']
      BY <2>1, <2>5, <3>1
    <3>3. QED
      BY <2>3, <3>2
  <2>6. SqlShown'
    BY <2>1, <2>3, <2>4, <2>5 DEF SqlShown
  <2>7. QED
    BY <2>1, <2>6
<1>3. CASE MongoRecent
  <2> DEFINE field == IF desc.col = NoColumn THEN "_id" ELSE desc.col
  <2>1. /\ eng' = eng /\ desc' = desc /\ eng = "mongo" /\ eng \notin Relational
        /\ desc.byDate => desc.col # NoColumn
        /\ rows \in Seq(Docs)
    BY <1>3 DEF MongoRecent, Relational, Described
  <2>2. PICK n \in 0 .. MaxRows : \E more \in [1 .. n -> Docs] :
          /\ rows' = rows \o more
          /\ shown' \in Top([x \in DOMAIN rows' |-> BsonKey(rows'[x], field)])
          /\ \E deep \in [1 .. Len(shown') -> BOOLEAN] :
               result' = BuildResultSet([k \in DOMAIN shown' |-> rows'[shown'[k]]], deep)
    BY <1>3 DEF MongoRecent
  <2>3. PICK more \in [1 .. n -> Docs] :
          /\ rows' = rows \o more
          /\ shown' \in Top([x \in DOMAIN rows' |-> BsonKey(rows'[x], field)])
          /\ \E deep \in [1 .. Len(shown') -> BOOLEAN] :
               result' = BuildResultSet([k \in DOMAIN shown' |-> rows'[shown'[k]]], deep)
    BY <2>2
  <2>4. rows' \in Seq(Docs)
    <3>1. n \in Nat /\ more \in Seq(Docs)
      OBVIOUS
    <3>2. QED
      BY <2>1, <2>3, <3>1
  <2>5. desc.byDate => shown' \in Top([x \in DOMAIN rows' |-> BsonKey(rows'[x], desc'.col)])
    BY <2>1, <2>3
  <2>6. \E deep : result' = BuildResultSet([k \in DOMAIN shown' |-> rows'[shown'[k]]], deep)
    BY <2>3
  <2>7. MongoShown'
    BY <2>1, <2>4, <2>5, <2>6 DEF MongoShown
  <2>8. QED
    BY <2>1, <2>7
<1>4. CASE UNCHANGED vars
  <2>1. UNCHANGED <<eng, phase, desc, rows, shown, result>>
    BY <1>4 DEF vars
  <2>2. SqlShown' = SqlShown /\ MongoShown' = MongoShown
    BY <2>1 DEF SqlShown, MongoShown, SqlKey
  <2>3. QED
    BY <2>1, <2>2 DEF Shown
<1>5. QED
  BY <1>1, <1>2, <1>3, <1>4 DEF Next

(* A leaf that nothing else is written over stands in its column.          *)
LEMMA LeafStands ==
  ASSUME NEW docs, NEW deep, NEW k \in DOMAIN docs, NEW l \in docs[k],
         l.kind # "empty", Twins(docs[k], l) = {}
  PROVE  LET res == BuildResultSet(docs, deep)
         IN  Column(l) \in DOMAIN res[k] /\ l \in res[k][Column(l)]
<1> DEFINE cols == {Column(m) : m \in UNION {FlattenInto(docs[j]) : j \in DOMAIN docs}}
           res == BuildResultSet(docs, deep)
<1>1. l \in FlattenInto(docs[k])
  BY DEF FlattenInto
<1>2. Column(l) \in cols
  BY <1>1
<1>3. Wins(docs[k], l, deep[k])
  BY DEF Wins
<1>4. res[k] = [c \in cols |->
         {m \in FlattenInto(docs[k]) : Column(m) = c /\ Wins(docs[k], m, deep[k])}]
  BY DEF BuildResultSet
<1> HIDE DEF cols, res
<1>5. Column(l) \in DOMAIN res[k] /\ l \in res[k][Column(l)]
  BY <1>1, <1>2, <1>3, <1>4
<1>6. QED
  BY <1>5 DEF res

LEMMA ShownIsNewest == TypeOK /\ Shown => RecentIsNewest
<1> SUFFICES ASSUME TypeOK, Shown, phase = "shown", desc.byDate,
                    eng = "postgres" => \A x \in DOMAIN rows : rows[x].kind # "null"
             PROVE  NewestFirst
  BY DEF RecentIsNewest
<1>1. eng \in Relational \/ eng = "mongo"
  BY RecentAssumption DEF TypeOK
<1>2. CASE eng \in Relational
  BY <1>2, SqlNewest DEF Shown, SqlShown
<1>3. CASE eng = "mongo"
  BY <1>3, MongoNewest DEF Shown, MongoShown
<1>4. QED
  BY <1>1, <1>2, <1>3

LEMMA ShownIsWhole == Shown => NothingLost
<1> SUFFICES ASSUME Shown, phase = "shown", eng = "mongo",
                    NEW k \in DOMAIN shown, NEW l \in rows[shown[k]],
                    l.kind # "empty", Twins(rows[shown[k]], l) = {}
             PROVE  \E c \in DOMAIN result[k] : c = Column(l) /\ l \in result[k][c]
  BY DEF NothingLost
<1> DEFINE docs == [j \in DOMAIN shown |-> rows[shown[j]]]
<1>1. PICK deep : result = BuildResultSet(docs, deep)
  BY DEF Shown, MongoShown
<1>2. k \in DOMAIN docs /\ docs[k] = rows[shown[k]]
  OBVIOUS
<1> HIDE DEF docs
<1>3. Column(l) \in DOMAIN result[k] /\ l \in result[k][Column(l)]
  BY <1>1, <1>2, LeafStands
<1>4. QED
  BY <1>3

LEMMA RowsHold == Spec => [](TypeOK /\ Shown)
<1>1. Init => Described /\ Shown
  BY DEF Init, Described, Shown
<1>2. IndInv /\ IndInv' /\ [Next]_vars /\ Described /\ Shown => Described' /\ Shown'
  BY DescribedStep, ShownStep
<1>3. IndInv => TypeOK
  BY DEF IndInv
<1>4. QED
  BY <1>1, <1>2, <1>3, InvHolds, PTL DEF Spec

(* engine.go:205-208 for any rows and documents and any limit: sorted by a *)
(* column of dates the rows shown are the newest, newest first, whichever  *)
(* way the server breaks ties; NULLs in Postgres are the exception.        *)
THEOREM NewestShown == Spec => []RecentIsNewest
<1>1. QED
  BY RowsHold, ShownIsNewest, PTL

(* mongo.go:445-458 for documents of any depth and any mixture of fields:  *)
(* each leaf reaches the row it belongs to, but sub-documents without      *)
(* fields and the twins of a leaf.                                         *)
THEOREM NoLeafLost == Spec => []NothingLost
<1>1. QED
  BY RowsHold, ShownIsWhole, PTL
=============================================================================
