---------------------------- MODULE TerminalProofs ----------------------------
(***************************************************************************)
(* Proofs about the two terminal interfaces.  Of the TUI, for any          *)
(* collections, filters and sizes of terminal and tables: the list of a    *)
(* filter is what it promises, the selection is on the screen, the panel   *)
(* is not scrolled past its table, and an operator who waits sees the rows *)
(* of the selection.  Of the picker and the detection behind it, for any   *)
(* directory that others write meanwhile: the engine that is provisioned   *)
(* is the first of the most confident ones, and the one the line said.     *)
(*                                                                         *)
(* applyFilter and chooseEngine are loops, so the first part is induction: *)
(* over finite sets from WFMin, over numbers from that, and with it what a *)
(* loop computes.                                                          *)
(***************************************************************************)
EXTENDS Tui, Detect, FiniteSetTheorems, TLAPS

(* What holds of {} and is kept by one more element holds of every finite  *)
(* set: the strict subsets of a finite set are well founded.               *)
LEMMA SetInduction ==
  ASSUME NEW S, IsFiniteSet(S), NEW C, {} \in C,
         \A T \in SUBSET S, x \in S : T \in C /\ x \notin T => T \cup {x} \in C
  PROVE  S \in C
<1> DEFINE Bad == {T \in SUBSET S : T \notin C}
<1> SUFFICES ASSUME Bad # {} PROVE FALSE
  OBVIOUS
<1>1. IsWellFoundedOn(StrictSubsetOrdering(S), SUBSET S)
  BY FS_StrictSubsetOrderingWellFounded, FS_FiniteSubsetsOfFinite, Zenon
<1>2. PICK M \in Bad : \A Y \in Bad : ~(<<Y, M>> \in StrictSubsetOrdering(S))
  <2>1. Bad \subseteq SUBSET S
    OBVIOUS
  <2> HIDE DEF Bad
  <2>2. QED
    BY <1>1, <2>1, WFMin
<1>3. PICK x \in M : TRUE
  OBVIOUS
<1>4. M \ {x} \in SUBSET S /\ M \ {x} # M /\ (M \ {x}) \cup {x} = M
  BY <1>3
<1>5. <<M \ {x}, M>> \in StrictSubsetOrdering(S)
  BY <1>4 DEF StrictSubsetOrdering
<1>6. QED
  BY <1>2, <1>3, <1>4, <1>5

(* Induction over the numbers, from the sizes of the sets 1 .. n.          *)
LEMMA NumberInduction ==
  ASSUME NEW C, 0 \in C, \A n \in Nat : n \in C => n + 1 \in C
  PROVE  \A n \in Nat : n \in C
<1> SUFFICES ASSUME NEW n \in Nat PROVE n \in C
  OBVIOUS
<1> DEFINE D == {T \in SUBSET (1 .. n) : Cardinality(T) \in C}
<1>1. IsFiniteSet(1 .. n) /\ Cardinality(1 .. n) = n
  BY FS_Interval
<1>2. {} \in D
  BY FS_EmptySet
<1>3. ASSUME NEW T \in SUBSET (1 .. n), NEW x \in 1 .. n, T \in D, x \notin T
      PROVE  T \cup {x} \in D
  <2>1. IsFiniteSet(T) /\ Cardinality(T) \in Nat
    BY <1>1, FS_Subset, FS_CardinalityType
  <2>2. Cardinality(T \cup {x}) = Cardinality(T) + 1
    BY <1>3, <2>1, FS_AddElement
  <2>3. QED
    BY <1>3, <2>1, <2>2
<1>4. 1 .. n \in D
  <2> HIDE DEF D
  <2>1. QED
    BY <1>1, <1>2, <1>3, SetInduction
<1>5. QED
  BY <1>1, <1>4

(* What a loop over 1 .. n with the body d has after each pass.            *)
Runs(g, n, V, a, d) ==
  /\ g \in [0 .. n -> V] /\ g[0] = a
  /\ \A k \in 1 .. n : g[k] = d[k][g[k - 1]]

(* Every loop does run.                                                    *)
LEMMA Loop ==
  ASSUME NEW n \in Nat, NEW V, NEW a \in V, NEW d \in [1 .. n -> [V -> V]]
  PROVE  \E g : Runs(g, n, V, a, d)
<1> DEFINE C == {m \in Nat : m <= n => \E g : Runs(g, m, V, a, d)}
<1>1. 0 \in C
  <2>1. Runs([k \in 0 .. 0 |-> a], 0, V, a, d)
    BY DEF Runs
  <2>2. QED
    BY <2>1
<1>2. ASSUME NEW m \in Nat, m \in C, m + 1 <= n PROVE \E g : Runs(g, m + 1, V, a, d)
  <2>1. PICK g : Runs(g, m, V, a, d)
    BY <1>2
  <2> DEFINE x == d[m + 1][g[m]]
             h == [k \in 0 .. m + 1 |-> IF k = m + 1 THEN x ELSE g[k]]
  <2>2. g \in [0 .. m -> V] /\ x \in V
    BY <1>2, <2>1 DEF Runs
  <2>3. h \in [0 .. m + 1 -> V]
    BY <2>2
  <2>4. ASSUME NEW k \in 1 .. m + 1 PROVE h[k] = d[k][h[k - 1]]
    <3>1. CASE k = m + 1
      <4>1. h[m + 1] = x /\ h[m] = g[m] /\ k - 1 = m
        BY <3>1
      <4>2. QED
        BY <3>1, <4>1
    <3>2. CASE k # m + 1
      <4>1. k \in 1 .. m /\ h[k] = g[k] /\ h[k - 1] = g[k - 1]
        BY <3>2
      <4>2. QED
        BY <2>1, <4>1 DEF Runs
    <3>3. QED
      BY <3>1, <3>2
  <2>5. h[0] = a
    BY <2>1 DEF Runs
  <2> HIDE DEF h
  <2>6. QED
    BY <2>3, <2>4, <2>5 DEF Runs
<1>3. ASSUME NEW m \in Nat, m \in C PROVE m + 1 \in C
  BY <1>2, <1>3
<1>4. n \in C
  <2> HIDE DEF C
  <2>1. QED
    BY <1>1, <1>3, NumberInduction
<1>5. QED
  BY <1>4

(* The loop of applyFilter as an equation.                                 *)
LEMMA FilterLoop ==
  ASSUME NEW f
  PROVE  \E g : /\ Filtered(f) = g[Len(Names)]
                /\ g = [k \in 0 .. Len(Names) |->
                          IF k = 0 THEN <<>>
                          ELSE IF Contains(Names[k], f) THEN Append(g[k - 1], k) ELSE g[k - 1]]
<1> DEFINE n == Len(Names)
           Eq(g) == g = [k \in 0 .. n |->
                          IF k = 0 THEN <<>>
                          ELSE IF Contains(Names[k], f) THEN Append(g[k - 1], k) ELSE g[k - 1]]
           V == Seq(Nat)
           d == [k \in 1 .. n |-> [v \in V |-> IF Contains(Names[k], f) THEN Append(v, k) ELSE v]]
<1>1. n \in Nat /\ <<>> \in V
  BY TuiAssumption
<1>2. d \in [1 .. n -> [V -> V]]
  OBVIOUS
<1> DEFINE a == <<>>
<1>3. PICK g : Runs(g, n, V, a, d)
  <2> HIDE DEF d, V, n, a
  <2>1. n \in Nat /\ a \in V
    BY <1>1 DEF a
  <2>2. QED
    BY <2>1, <1>2, Loop
<1> DEFINE e == [k \in 0 .. n |-> IF k = 0 THEN <<>>
                       ELSE IF Contains(Names[k], f) THEN Append(g[k - 1], k) ELSE g[k - 1]]
<1>4. Eq(g)
  <2>0. g \in [0 .. n -> V] /\ g[0] = <<>> /\ \A k \in 1 .. n : g[k] = d[k][g[k - 1]]
    BY <1>3 DEF Runs
  <2>1. ASSUME NEW k \in 0 .. n PROVE g[k] = e[k]
    <3>1. CASE k = 0
      BY <2>0, <3>1
    <3>2. CASE k # 0
      <4>1. k \in 1 .. n /\ k - 1 \in 0 .. n
        BY <1>1, <3>2
      <4>2. g[k - 1] \in V
        BY <2>0, <4>1
      <4>3. g[k] = d[k][g[k - 1]]
        BY <2>0, <4>1
      <4>4. QED
        BY <3>2, <4>1, <4>2, <4>3
    <3>3. QED
      BY <3>1, <3>2
  <2>2. QED
    BY <2>0, <2>1
<1>5. Eq(CHOOSE g_1 : Eq(g_1))
  <2> HIDE DEF Eq
  <2>1. QED
    BY <1>4
<1>6. Filtered(f) = (CHOOSE g_1 : Eq(g_1))[n]
  BY DEF Filtered
<1>7. QED
  BY <1>5, <1>6

(* What the filter f leaves of the first k collections: those whose name   *)
(* contains it, all of them, in their order.                               *)
Leaves(f, k, s) ==
  /\ s \in Seq(Nat)
  /\ \A i \in 1 .. Len(s) : s[i] \in 1 .. k
  /\ \A i, j \in 1 .. Len(s) : i < j => s[i] < s[j]
  /\ \A c \in 1 .. k : (\E i \in 1 .. Len(s) : s[i] = c) <=> Contains(Names[c], f)

LEMMA LeavesMore ==
  ASSUME NEW f, NEW k \in Nat, NEW s, Leaves(f, k, s)
  PROVE  Leaves(f, k + 1, IF Contains(Names[k + 1], f) THEN Append(s, k + 1) ELSE s)
<1>1. s \in Seq(Nat) /\ Len(s) \in Nat
  BY DEF Leaves
<1>2. CASE Contains(Names[k + 1], f)
  <2> DEFINE t == Append(s, k + 1)
  <2>1. /\ t \in Seq(Nat) /\ Len(t) = Len(s) + 1 /\ t[Len(s) + 1] = k + 1
        /\ \A i \in 1 .. Len(s) : t[i] = s[i]
    BY <1>1
  <2>2. \A i \in 1 .. Len(t) : i \in 1 .. Len(s) \/ i = Len(s) + 1
    BY <1>1, <2>1
  <2> HIDE DEF t
  <2>3. \A i \in 1 .. Len(t) : t[i] \in 1 .. k + 1
    <3> SUFFICES ASSUME NEW i \in 1 .. Len(t) PROVE t[i] \in 1 .. k + 1
      OBVIOUS
    <3>1. CASE i \in 1 .. Len(s)
      BY <2>1, <3>1 DEF Leaves
    <3>2. CASE i = Len(s) + 1
      BY <2>1, <3>2
    <3>3. QED
      BY <2>2, <3>1, <3>2
  <2>4. \A i, j \in 1 .. Len(t) : i < j => t[i] < t[j]
    <3> SUFFICES ASSUME NEW i \in 1 .. Len(t), NEW j \in 1 .. Len(t), i < j PROVE t[i] < t[j]
      OBVIOUS
    <3>1. i \in 1 .. Len(s) /\ t[i] = s[i] /\ s[i] \in 1 .. k
      BY <1>1, <2>1, <2>2 DEF Leaves
    <3>2. CASE j \in 1 .. Len(s)
      BY <2>1, <3>1, <3>2 DEF Leaves
    <3>3. CASE j = Len(s) + 1
      BY <2>1, <3>1, <3>3
    <3>4. QED
      BY <2>2, <3>2, <3>3
  <2>5. ASSUME NEW c \in 1 .. k + 1
        PROVE  (\E i \in 1 .. Len(t) : t[i] = c) <=> Contains(Names[c], f)
    <3>1. CASE c = k + 1
      <4>1. Len(s) + 1 \in 1 .. Len(t)
        BY <1>1, <2>1
      <4>2. QED
        BY <1>2, <2>1, <3>1, <4>1
    <3>2. CASE c \in 1 .. k
      <4>1. c # k + 1
        BY <3>2
      <4>2. (\E i \in 1 .. Len(t) : t[i] = c) <=> (\E i \in 1 .. Len(s) : s[i] = c)
        <5>1. ASSUME NEW i \in 1 .. Len(t), t[i] = c PROVE i \in 1 .. Len(s) /\ s[i] = c
          BY <2>1, <2>2, <4>1, <5>1
        <5>2. ASSUME NEW i \in 1 .. Len(s), s[i] = c PROVE i \in 1 .. Len(t) /\ t[i] = c
          BY <1>1, <2>1, <5>2
        <5>3. QED
          BY <5>1, <5>2
      <4>3. QED
        BY <3>2, <4>2 DEF Leaves
    <3>3. QED
      BY <3>1, <3>2
  <2>6. QED
    BY <1>2, <2>1, <2>3, <2>4, <2>5 DEF Leaves, t
<1>3. CASE ~Contains(Names[k + 1], f)
  <2>1. \A i \in 1 .. Len(s) : s[i] \in 1 .. k + 1 /\ s[i] # k + 1
    BY <1>1 DEF Leaves
  <2>2. ASSUME NEW c \in 1 .. k + 1
        PROVE  (\E i \in 1 .. Len(s) : s[i] = c) <=> Contains(Names[c], f)
    BY <1>3, <2>1 DEF Leaves
  <2>3. QED
    BY <1>3, <2>1, <2>2 DEF Leaves
<1>4. QED
  BY <1>2, <1>3

(* applyFilter for filters of any length over lists of any length.         *)
LEMMA FilterLeaves ==
  ASSUME NEW f
  PROVE  Leaves(f, Len(Names), Filtered(f)) /\ Filtered(f) \in Seq(Coll)
<1> DEFINE n == Len(Names)
<1>1. n \in Nat /\ Coll = 1 .. n
  BY TuiAssumption DEF Coll
<1>2. PICK g : /\ Filtered(f) = g[n]
               /\ g = [k \in 0 .. n |->
                         IF k = 0 THEN <<>>
                         ELSE IF Contains(Names[k], f) THEN Append(g[k - 1], k) ELSE g[k - 1]]
  BY FilterLoop
<1> DEFINE C == {k \in Nat : k <= n => Leaves(f, k, g[k])}
<1> HIDE DEF n
<1>3. 0 \in C
  <2>1. g[0] = <<>>
    BY <1>1, <1>2
  <2>2. Leaves(f, 0, <<>>)
    BY DEF Leaves
  <2>3. QED
    BY <2>1, <2>2
<1>4. ASSUME NEW k \in Nat, k \in C PROVE k + 1 \in C
  <2> SUFFICES ASSUME k + 1 <= n PROVE Leaves(f, k + 1, g[k + 1])
    OBVIOUS
  <2>1. g[k + 1] = IF Contains(Names[k + 1], f) THEN Append(g[k], k + 1) ELSE g[k]
    <3>1. k + 1 \in 0 .. n /\ k + 1 # 0 /\ (k + 1) - 1 = k
      BY <1>1
    <3>2. QED
      BY <1>2, <3>1
  <2>2. Leaves(f, k, g[k])
    BY <1>1, <1>4
  <2>3. QED
    BY <2>1, <2>2, LeavesMore
<1>5. Leaves(f, n, g[n])
  <2> HIDE DEF C
  <2>1. n \in C
    BY <1>1, <1>3, <1>4, NumberInduction
  <2>2. QED
    BY <1>1, <2>1 DEF C
<1>6. g[n] \in Seq(Coll)
  BY <1>1, <1>5 DEF Leaves
<1>7. QED
  BY <1>2, <1>5, <1>6 DEF n

-----------------------------------------------------------------------------
PaneOK ==
  /\ width \in Nat /\ noList \in BOOLEAN /\ wide \in BOOLEAN
  /\ res \in Coll \cup {0}
  /\ hscroll \in Nat

PaneInv == PaneOK /\ TableIsOnScreen

(* The panel shows at least 16 letters, however narrow the terminal.       *)
LEMMA ViewIsWide ==
  ASSUME NEW w \in Nat, NEW hidden \in BOOLEAN
  PROVE  LET left == w - (IF hidden THEN 0 ELSE ListW(w)) - 2
             view == (IF left < 20 THEN 20 ELSE left) - 4
         IN  view \in Int /\ view >= 16
<1>1. ListW(w) \in Int
  BY DEF ListW
<1>2. QED
  BY <1>1

LEMMA ViewNow == PaneOK => ViewW \in Int /\ ViewW >= 16
  BY ViewIsWide DEF PaneOK, ViewW

(* The arithmetic of scrollBy.                                             *)
LEMMA Clamp ==
  ASSUME NEW total \in Nat, NEW view \in Int, view >= 16, NEW wish \in Int, NEW h,
         h = LET limit == total - view
                 least == IF wish > limit THEN limit ELSE wish
             IN  IF least < 0 THEN 0 ELSE least
  PROVE  h \in Nat /\ (h > 0 => h + 16 <= total)
<1>1. CASE wish > total - view
  BY <1>1
<1>2. CASE ~(wish > total - view)
  BY <1>2
<1>3. QED
  BY <1>1, <1>2

(* scrollBy leaves the panel on the table that is kept, whatever it is     *)
(* asked for and however the panes have just changed.                      *)
LEMMA ScrollStays ==
  ASSUME PaneOK, PaneOK', UNCHANGED res, NEW d \in Int, ScrollBy(d)
  PROVE  hscroll' \in Nat /\ TableIsOnScreen'
<1>1. ViewW' \in Int /\ ViewW' >= 16
  <2>1. width' \in Nat /\ noList' \in BOOLEAN
    BY DEF PaneOK
  <2>2. QED
    BY <2>1, ViewIsWide DEF ViewW
<1>2. CASE res = 0
  <2>1. hscroll' = 0
    BY <1>2 DEF ScrollBy, PaneOK
  <2>2. QED
    BY <2>1 DEF TableIsOnScreen
<1>3. CASE res # 0
  <2>1. TableWidth[res][wide'] \in Nat /\ hscroll \in Nat
    BY <1>3, TuiAssumption DEF PaneOK, Coll
  <2>2. hscroll' = LET limit == TableWidth[res][wide'] - ViewW'
                       least == IF hscroll + d > limit THEN limit ELSE hscroll + d
                   IN  IF least < 0 THEN 0 ELSE least
    BY <1>3 DEF ScrollBy
  <2>3. hscroll' \in Nat /\ (hscroll' > 0 => hscroll' + 16 <= TableWidth[res][wide'])
    <3>1. PICK total \in Nat, view \in Int, wish \in Int :
            /\ total = TableWidth[res][wide'] /\ view = ViewW' /\ view >= 16
            /\ wish = hscroll + d
      BY <1>1, <2>1
    <3>2. hscroll' \in Nat /\ (hscroll' > 0 => hscroll' + 16 <= total)
      BY <2>2, <3>1, Clamp
    <3>3. QED
      BY <3>1, <3>2
  <2>4. QED
    BY <1>3, <2>3 DEF TableIsOnScreen
<1>4. QED
  BY <1>2, <1>3

LEMMA PaneStep == PaneInv /\ [Next]_vars => PaneInv'
<1> SUFFICES ASSUME PaneInv, [Next]_vars PROVE PaneInv'
  OBVIOUS
<1> USE DEF PaneInv
<1>1. CASE UNCHANGED <<pane, res>>
  BY <1>1 DEF pane, PaneOK, TableIsOnScreen
<1>2. CASE ScrollKey
  <2>1. PaneOK /\ UNCHANGED <<width, noList, wide, res>>
    BY <1>2 DEF ScrollKey, kept
  <2>2. CASE hscroll' = 0
    BY <2>1, <2>2 DEF PaneOK, TableIsOnScreen
  <2>3. ASSUME NEW d \in {-Arrow, Arrow, -ViewW, ViewW, Far}, ScrollBy(d)
        PROVE  PaneInv'
    <3>1. d \in Int
      BY ViewNow, TuiAssumption DEF Far
    <3>2. hscroll' \in Nat
      <4>1. ViewW' = ViewW
        BY <2>1 DEF ViewW
      <4>2. TableWidth[res][wide'] \in Nat \/ res = 0
        BY <2>1, TuiAssumption DEF PaneOK, Coll
      <4>3. QED
        BY <2>3, <3>1, <4>1, <4>2, ViewNow DEF ScrollBy, PaneOK
    <3>3. PaneOK'
      BY <2>1, <3>2 DEF PaneOK
    <3>4. QED
      BY <2>1, <2>3, <3>1, <3>3, ScrollStays
  <2>4. QED
    BY <1>2, <2>2, <2>3 DEF ScrollKey
<1>3. CASE ExpandKey \/ TabKey
  <2>1. /\ width' \in Nat /\ noList' \in BOOLEAN /\ wide' \in BOOLEAN
        /\ UNCHANGED res /\ ScrollBy(0)
    BY <1>3 DEF ExpandKey, TabKey, kept, PaneOK
  <2>2. hscroll' \in Nat
    <3>1. ViewW' \in Int /\ hscroll \in Nat
      BY <2>1, ViewIsWide DEF ViewW, PaneOK
    <3>2. TableWidth[res][wide'] \in Nat \/ res = 0
      BY <2>1, TuiAssumption DEF PaneOK, Coll
    <3>3. QED
      BY <2>1, <3>1, <3>2 DEF ScrollBy
  <2>3. PaneOK'
    BY <2>1, <2>2 DEF PaneOK
  <2>4. QED
    BY <2>1, <2>3, ScrollStays
<1>4. CASE Answer
  <2>1. PICK c \in Coll : QueryDone(c)
    BY <1>4 DEF Answer
  <2>2. hscroll' = 0 /\ res' \in {0, c} /\ UNCHANGED <<width, noList, wide>>
    BY <2>1 DEF QueryDone
  <2>3. QED
    BY <2>2 DEF PaneOK, TableIsOnScreen
<1>5. CASE Resize
  <2>1. width' \in Nat /\ UNCHANGED <<noList, wide, hscroll, res>>
    BY <1>5, TuiAssumption DEF Resize, kept
  <2>2. QED
    BY <2>1 DEF PaneOK, TableIsOnScreen
<1>6. CASE \/ MoveKey \/ Mouse \/ Reload \/ OpenFilter \/ EditFilter
           \/ DropFilter \/ KeepFilter \/ Quit \/ UNCHANGED vars
  <2>1. UNCHANGED <<pane, res>>
    BY <1>6 DEF MoveKey, Mouse, Reload, OpenFilter, EditFilter, DropFilter,
                KeepFilter, Quit, vars, kept
  <2>2. QED
    BY <1>1, <2>1
<1>7. QED
  BY <1>2, <1>3, <1>4, <1>5, <1>6 DEF Next, Operator

-----------------------------------------------------------------------------
(* With patience there is at most one query, that of the selection; when   *)
(* there is none, the rows kept are the selection's or keys go to the      *)
(* filter.  Rows that are kept for a collection are that collection's.     *)
OneQuery(c) == inflight = [d \in Coll |-> IF d = c THEN 1 ELSE 0]

Patience ==
  /\ res # 0 /\ resFor # 0 => res = resFor
  /\ patient =>
       \/ Idle /\ (~filtOn /\ collections # <<>> => ShowsSelected)
       \/ collections # <<>> /\ OneQuery(Selected)

ListInv == TypeOK /\ SelectionIsVisible /\ Patience

LEMMA CollIs == Coll = 1 .. Len(Names) /\ Len(Names) \in Nat \ {0} /\ All \in Seq(Coll)
<1>1. Names \in Seq(Seq(Letters)) /\ Names # <<>>
  BY TuiAssumption
<1>2. Len(Names) \in Nat /\ Coll = 1 .. Len(Names)
  BY <1>1 DEF Coll
<1>3. Len(Names) # 0
  BY <1>1
<1>4. QED
  BY <1>2, <1>3 DEF All

(* The selection of a list whose cursor is on it is a collection.          *)
LEMMA OnList ==
  ASSUME NEW s \in Seq(Coll), NEW c \in Nat, s # <<>>, c < Len(s) \/ (c = 0 /\ s = <<>>)
  PROVE  s[c + 1] \in Coll /\ s[c + 1] # 0
<1>1. Len(s) \in Nat /\ c < Len(s)
  OBVIOUS
<1>2. c + 1 \in 1 .. Len(s)
  BY <1>1
<1>3. s[c + 1] \in Coll
  BY <1>2
<1>4. QED
  BY <1>3, CollIs

LEMMA SelectedIs ==
  ASSUME TypeOK, SelectionIsVisible, collections # <<>>
  PROVE  Selected \in Coll /\ Selected # 0
  BY OnList DEF TypeOK, SelectionIsVisible, Selected

(* The arithmetic of clampCursor: a line c, a window of v lines from o.    *)
LEMMA Window ==
  ASSUME NEW c \in Nat, NEW o \in Nat, NEW v \in Nat, v > 0, NEW w,
         w = IF c < o THEN c ELSE IF c >= o + v THEN c - v + 1 ELSE o
  PROVE  w \in Nat /\ w <= c /\ c < w + v
  OBVIOUS

(* clampCursor, wherever the cursor was sent and however the list and its  *)
(* window changed.                                                         *)
LEMMA ClampSees ==
  ASSUME TypeOK, collections' \in Seq(Coll), vis' \in Heights, NEW wish \in Int,
         ClampCursor(wish)
  PROVE  cursor' \in Nat /\ offset' \in Nat /\ SelectionIsVisible'
<1>1. vis' \in Nat /\ vis' > 0 /\ offset \in Nat /\ Len(collections') \in Nat
  BY TuiAssumption DEF TypeOK
<1>2. collections' # <<>> => Len(collections') > 0
  OBVIOUS
<1> DEFINE last == IF collections' = <<>> THEN 0 ELSE Len(collections') - 1
<1>3. last \in Nat /\ (collections' = <<>> => last = 0)
      /\ (collections' # <<>> => last < Len(collections'))
  BY <1>1, <1>2
<1>4. cursor' = IF wish < 0 THEN 0 ELSE IF wish > last THEN last ELSE wish
  BY DEF ClampCursor
<1> HIDE DEF last
<1>5. cursor' \in Nat /\ cursor' <= last
  BY <1>3, <1>4
<1>6. offset' = IF cursor' < offset THEN cursor'
                ELSE IF cursor' >= offset + vis' THEN cursor' - vis' + 1 ELSE offset
  BY DEF ClampCursor
<1>7. offset' \in Nat /\ offset' <= cursor' /\ cursor' < offset' + vis'
  BY <1>1, <1>5, <1>6, Window
<1>8. cursor' < Len(collections') \/ (cursor' = 0 /\ collections' = <<>>)
  BY <1>1, <1>3, <1>5
<1>9. QED
  BY <1>5, <1>7, <1>8 DEF SelectionIsVisible

(* applyFilter.                                                            *)
LEMMA FilterSees ==
  ASSUME TypeOK, ApplyFilter
  PROVE  /\ collections' \in Seq(Coll) /\ cursor' \in Nat /\ offset' \in Nat
         /\ vis' \in Heights /\ SelectionIsVisible'
<1>1. collections' \in Seq(Coll) /\ cursor' = 0 /\ offset' = 0 /\ vis' = vis
  BY FilterLeaves DEF ApplyFilter
<1>2. vis \in Nat \ {0}
  BY TuiAssumption DEF TypeOK
<1>3. 0 < Len(collections') \/ collections' = <<>>
  BY <1>1
<1>4. QED
  BY <1>1, <1>2, <1>3 DEF SelectionIsVisible, TypeOK

(* loadCurrent keeps the types.                                            *)
LEMMA LoadTypes ==
  ASSUME TypeOK, LoadCurrent, collections' # <<>> => Selected' \in Coll
  PROVE  loading' \in BOOLEAN /\ inflight' \in [Coll -> Nat]
<1>1. CASE UNCHANGED <<loading, inflight>>
  BY <1>1 DEF TypeOK
<1>2. CASE /\ collections' # <<>> /\ loading' = TRUE
           /\ inflight' = [inflight EXCEPT ![Selected'] = @ + 1]
  BY <1>2 DEF TypeOK
<1>3. QED
  BY <1>1, <1>2 DEF LoadCurrent

(* loadCurrent with nothing in flight: the rows of the selection are kept, *)
(* or they are asked for.                                                  *)
LEMMA LoadShows ==
  ASSUME TypeOK, LoadCurrent, Idle,
         collections' # <<>> => Selected' \in Coll /\ Selected' # 0,
         res' # 0 /\ resFor' # 0 => res' = resFor'
  PROVE  Patience'
<1>1. CASE UNCHANGED <<loading, inflight>>
           /\ (collections' = <<>> \/ (Selected' = resFor' /\ res' # 0))
  <2>1. Idle'
    BY <1>1 DEF Idle
  <2>2. collections' # <<>> => ShowsSelected'
    BY <1>1 DEF ShowsSelected
  <2>3. QED
    BY <2>1, <2>2 DEF Patience
<1>2. CASE /\ collections' # <<>>
           /\ inflight' = [inflight EXCEPT ![Selected'] = @ + 1]
  <2>1. \A d \in Coll : inflight[d] = 0
    BY DEF Idle
  <2>2. inflight' = [d \in Coll |-> IF d = Selected' THEN 1 ELSE 0]
    <3>1. inflight \in [Coll -> Nat]
      BY DEF TypeOK
    <3>2. PICK c : c = Selected'
      OBVIOUS
    <3>3. inflight' = [inflight EXCEPT ![c] = @ + 1]
      BY <1>2, <3>2
    <3>4. inflight' = [d \in Coll |-> IF d = c THEN inflight[c] + 1 ELSE inflight[d]]
      BY <3>1, <3>3
    <3>5. c \in Coll
      BY <1>2, <3>2
    <3>6. inflight' = [d \in Coll |-> IF d = c THEN 1 ELSE 0]
      BY <2>1, <3>4, <3>5
    <3>7. QED
      BY <3>2, <3>6
  <2>3. QED
    BY <1>2, <2>2 DEF Patience, OneQuery
<1>3. QED
  BY <1>1, <1>2 DEF LoadCurrent

(* A key or the mouse moves the cursor of the list as it is, and loads.    *)
LEMMA MoveShows ==
  ASSUME ListInv, Input, NEW wish \in Int, ClampCursor(wish), LoadCurrent,
         UNCHANGED <<collections, vis, kept>>
  PROVE  /\ cursor' \in Nat /\ offset' \in Nat
         /\ loading' \in BOOLEAN /\ inflight' \in [Coll -> Nat]
         /\ SelectionIsVisible' /\ (patient => Patience')
         /\ (res' # 0 /\ resFor' # 0 => res' = resFor')
<1>1. TypeOK /\ collections' \in Seq(Coll) /\ vis' \in Heights
  BY DEF ListInv, TypeOK
<1>2. cursor' \in Nat /\ offset' \in Nat /\ SelectionIsVisible'
  BY <1>1, ClampSees
<1>3. collections' # <<>> => Selected' \in Coll /\ Selected' # 0
  BY <1>1, <1>2, OnList DEF SelectionIsVisible, Selected
<1>4. res' # 0 /\ resFor' # 0 => res' = resFor'
  BY DEF ListInv, Patience, kept
<1>5. patient => Patience'
  BY <1>1, <1>3, <1>4, LoadShows DEF Input
<1>6. QED
  BY <1>1, <1>2, <1>3, <1>4, <1>5, LoadTypes

(* Of an impatient operator Patience only says what is kept.               *)
LEMMA Impatient ==
  ASSUME ~patient, UNCHANGED patient, res' # 0 /\ resFor' # 0 => res' = resFor'
  PROVE  Patience'
  BY DEF Patience

(* Every step keeps the list and what is shown of it.                      *)
LEMMA ListStep == ListInv /\ PaneInv /\ [Next]_vars => ListInv'
<1> SUFFICES ASSUME ListInv, PaneInv, [Next]_vars PROVE ListInv'
  OBVIOUS
<1>0. TypeOK /\ SelectionIsVisible /\ Patience /\ hscroll' \in Nat
  BY PaneStep DEF ListInv, PaneInv, PaneOK
<1>1. CASE MoveKey
  <2>1. PICK wish \in Wishes : ClampCursor(wish)
    BY <1>1 DEF MoveKey
  <2>2. wish \in Int
    <3>1. vis \in Nat /\ cursor \in Nat /\ Len(collections) \in Nat
      BY <1>0, TuiAssumption DEF TypeOK
    <3>2. QED
      BY <3>1 DEF Wishes
  <2>3. /\ Input /\ LoadCurrent
        /\ UNCHANGED <<collections, vis, mode, kept, pane, quitting, patient>>
    BY <1>1 DEF MoveKey
  <2>4. QED
    BY <1>0, <2>1, <2>2, <2>3, MoveShows, Impatient
    DEF ListInv, TypeOK, mode, kept, pane
<1>2. CASE Mouse
  <2>1. PICK wish \in {cursor - 1, cursor + 1}
                      \cup {k \in offset .. offset + vis - 1 : k < Len(collections)} :
          ClampCursor(wish)
    BY <1>2 DEF Mouse
  <2>2. wish \in Int
    BY <1>0, <2>1, TuiAssumption DEF TypeOK
  <2>3. /\ Input /\ LoadCurrent
        /\ UNCHANGED <<collections, vis, mode, kept, pane, quitting, patient>>
    BY <1>2 DEF Mouse
  <2>4. QED
    BY <1>0, <2>1, <2>2, <2>3, MoveShows, Impatient
    DEF ListInv, TypeOK, mode, kept, pane
<1>3. CASE Reload
  <2>1. /\ Input /\ LoadCurrent /\ resFor' = 0
        /\ UNCHANGED <<list, mode, res, resErr, pane, quitting, patient>>
    BY <1>3 DEF Reload
  <2>2. SelectionIsVisible'
    BY <1>0, <2>1 DEF SelectionIsVisible, list
  <2>3. Selected' = Selected /\ collections' = collections
    BY <2>1 DEF Selected, list
  <2>4. collections' # <<>> => Selected' \in Coll /\ Selected' # 0
    BY <1>0, <2>3, SelectedIs
  <2>5. loading' \in BOOLEAN /\ inflight' \in [Coll -> Nat]
    BY <1>0, <2>1, <2>4, LoadTypes
  <2>6. Patience'
    <3>1. CASE patient
      BY <1>0, <2>1, <2>4, <3>1, LoadShows DEF Input
    <3>2. CASE ~patient
      BY <2>1, <3>2, Impatient
    <3>3. QED
      BY <3>1, <3>2
  <2>7. TypeOK'
    BY <1>0, <2>1, <2>5 DEF TypeOK, list, mode, pane
  <2>8. QED
    BY <2>2, <2>6, <2>7 DEF ListInv
<1>4. CASE OpenFilter \/ EditFilter
  <2>1. /\ Input /\ ApplyFilter /\ filtOn' = TRUE
        /\ UNCHANGED <<loading, kept, pane, inflight, quitting, patient>>
    BY <1>0, <1>4 DEF OpenFilter, EditFilter, TypeOK
  <2>2. filter' \in Seq(Letters)
    <3>1. CASE OpenFilter
      BY <3>1 DEF OpenFilter
    <3>2. CASE EditFilter
      <4>1. filter \in Seq(Letters)
        BY <1>0 DEF TypeOK
      <4>2. CASE \E a \in Letters : filter' = Append(filter, a)
        BY <4>1, <4>2
      <4>3. CASE filter # <<>> /\ filter' = SubSeq(filter, 1, Len(filter) - 1)
        BY <4>1, <4>3
      <4>4. QED
        BY <3>2, <4>2, <4>3 DEF EditFilter
    <3>3. QED
      BY <1>4, <3>1, <3>2
  <2>3. /\ collections' \in Seq(Coll) /\ cursor' \in Nat /\ offset' \in Nat
        /\ vis' \in Heights /\ SelectionIsVisible'
    BY <1>0, <2>1, FilterSees
  <2>4. Patience'
    BY <1>0, <2>1 DEF Patience, Input, Idle, kept
  <2>5. TypeOK'
    BY <1>0, <2>1, <2>2, <2>3 DEF TypeOK, kept, pane
  <2>6. QED
    BY <2>3, <2>4, <2>5 DEF ListInv
<1>5. CASE DropFilter
  <2>1. /\ Input /\ ApplyFilter /\ filtOn' = FALSE /\ filter' = <<>> /\ LoadCurrent
        /\ UNCHANGED <<kept, pane, quitting, patient>>
    BY <1>5 DEF DropFilter
  <2>2. /\ collections' \in Seq(Coll) /\ cursor' \in Nat /\ offset' \in Nat
        /\ vis' \in Heights /\ SelectionIsVisible'
    BY <1>0, <2>1, FilterSees
  <2>3. collections' # <<>> => Selected' \in Coll /\ Selected' # 0
    BY <2>2, OnList DEF SelectionIsVisible, Selected
  <2>4. loading' \in BOOLEAN /\ inflight' \in [Coll -> Nat]
    BY <1>0, <2>1, <2>3, LoadTypes
  <2>5. res' # 0 /\ resFor' # 0 => res' = resFor'
    BY <1>0, <2>1 DEF Patience, kept
  <2>6. Patience'
    <3>1. CASE patient
      BY <1>0, <2>1, <2>3, <2>5, <3>1, LoadShows DEF Input
    <3>2. CASE ~patient
      BY <2>1, <2>5, <3>2, Impatient
    <3>3. QED
      BY <3>1, <3>2
  <2>7. filter' \in Seq(Letters)
    BY <2>1
  <2>8. TypeOK'
    BY <1>0, <2>1, <2>2, <2>4, <2>7 DEF TypeOK, kept, pane
  <2>9. QED
    BY <2>2, <2>6, <2>8 DEF ListInv
<1>6. CASE KeepFilter
  <2>1. /\ Input /\ LoadCurrent /\ filtOn' = FALSE
        /\ UNCHANGED <<list, filter, kept, pane, quitting, patient>>
    BY <1>6 DEF KeepFilter
  <2>2. SelectionIsVisible'
    BY <1>0, <2>1 DEF SelectionIsVisible, list
  <2>3. Selected' = Selected /\ collections' = collections
    BY <2>1 DEF Selected, list
  <2>4. collections' # <<>> => Selected' \in Coll /\ Selected' # 0
    BY <1>0, <2>3, SelectedIs
  <2>5. loading' \in BOOLEAN /\ inflight' \in [Coll -> Nat]
    BY <1>0, <2>1, <2>4, LoadTypes
  <2>6. res' # 0 /\ resFor' # 0 => res' = resFor'
    BY <1>0, <2>1 DEF Patience, kept
  <2>7. Patience'
    <3>1. CASE patient
      BY <1>0, <2>1, <2>4, <2>6, <3>1, LoadShows DEF Input
    <3>2. CASE ~patient
      BY <2>1, <2>6, <3>2, Impatient
    <3>3. QED
      BY <3>1, <3>2
  <2>8. TypeOK'
    BY <1>0, <2>1, <2>5 DEF TypeOK, list, kept, pane
  <2>9. QED
    BY <2>2, <2>7, <2>8 DEF ListInv
<1>7. CASE Resize
  <2>1. /\ vis' \in Heights /\ width' \in Widths /\ ClampCursor(cursor)
        /\ UNCHANGED <<collections, mode, loading, kept, noList, wide, hscroll,
                       inflight, quitting, patient>>
    BY <1>7 DEF Resize
  <2>2. cursor \in Int /\ collections' \in Seq(Coll)
    BY <1>0, <2>1 DEF TypeOK
  <2>3. cursor' \in Nat /\ offset' \in Nat /\ SelectionIsVisible'
    BY <1>0, <2>1, <2>2, ClampSees
  <2>4. cursor' = cursor
    <3>1. cursor \in Nat /\ Len(collections) \in Nat
          /\ (cursor < Len(collections) \/ (cursor = 0 /\ collections = <<>>))
      BY <1>0 DEF TypeOK, SelectionIsVisible
    <3>2. cursor' = IF cursor < 0 THEN 0
                    ELSE IF cursor > (IF collections = <<>> THEN 0 ELSE Len(collections) - 1)
                      THEN (IF collections = <<>> THEN 0 ELSE Len(collections) - 1) ELSE cursor
      BY <2>1 DEF ClampCursor
    <3>3. collections # <<>> => ~(cursor > Len(collections) - 1)
      BY <3>1
    <3>4. QED
      BY <3>1, <3>2, <3>3
  <2>5. Patience'
    BY <1>0, <2>1, <2>4 DEF Patience, Idle, ShowsSelected, Selected, OneQuery, mode, kept
  <2>6. TypeOK'
    BY <1>0, <2>1, <2>2, <2>3 DEF TypeOK, mode, kept
  <2>7. QED
    BY <2>3, <2>5, <2>6 DEF ListInv
<1>8. CASE Quit \/ ScrollKey \/ ExpandKey \/ TabKey \/ UNCHANGED vars
  <2>1. /\ UNCHANGED <<list, mode, loading, kept, inflight, patient>>
        /\ quitting' \in BOOLEAN
        /\ width' \in Widths /\ noList' \in BOOLEAN /\ wide' \in BOOLEAN
    BY <1>0, <1>8 DEF Quit, ScrollKey, ExpandKey, TabKey, vars, pane, TypeOK
  <2>2. TypeOK'
    BY <1>0, <2>1 DEF TypeOK, list, mode, kept
  <2>3. SelectionIsVisible'
    BY <1>0, <2>1 DEF SelectionIsVisible, list
  <2>4. Patience'
    BY <1>0, <2>1
    DEF Patience, Idle, ShowsSelected, Selected, OneQuery, list, mode, kept
  <2>5. QED
    BY <2>2, <2>3, <2>4 DEF ListInv
<1>9. CASE Answer
  <2>1. PICK c \in Coll : QueryDone(c)
    BY <1>9 DEF Answer
  <2>2. /\ inflight[c] > 0 /\ inflight' = [inflight EXCEPT ![c] = @ - 1]
        /\ loading' = FALSE /\ resFor' = c /\ resErr' \in BOOLEAN
        /\ res' = IF resErr' THEN 0 ELSE c
        /\ UNCHANGED <<list, mode, width, noList, wide, quitting, patient>>
    BY <2>1 DEF QueryDone
  <2>3. inflight \in [Coll -> Nat]
    BY <1>0 DEF TypeOK
  <2>4. inflight' \in [Coll -> Nat]
    BY <2>2, <2>3
  <2>5. TypeOK'
    BY <1>0, <2>2, <2>4 DEF TypeOK, list, mode
  <2>6. SelectionIsVisible'
    BY <1>0, <2>2 DEF SelectionIsVisible, list
  <2>7. Patience'
    <3>1. CASE ~patient
      BY <2>2, <3>1, Impatient
    <3>2. CASE patient
      <4>1. ~Idle
        BY <2>2, <2>3 DEF Idle
      <4>2. collections # <<>> /\ OneQuery(Selected)
        BY <1>0, <3>2, <4>1 DEF Patience
      <4>3. c = Selected
        BY <2>2, <4>2 DEF OneQuery
      <4>4. \A d \in Coll : inflight'[d] = 0
        BY <2>2, <2>3, <4>2, <4>3 DEF OneQuery
      <4>5. Selected' = Selected
        BY <2>2 DEF Selected, list
      <4>6. ShowsSelected'
        BY <2>2, <4>3, <4>5 DEF ShowsSelected
      <4>7. QED
        BY <2>2, <4>4, <4>6 DEF Patience, Idle
    <3>3. QED
      BY <3>1, <3>2
  <2>8. QED
    BY <2>5, <2>6, <2>7 DEF ListInv
<1>10. QED
  BY <1>1, <1>2, <1>3, <1>4, <1>5, <1>6, <1>7, <1>8, <1>9 DEF Next, Operator

LEMMA InitOK == Init => ListInv /\ PaneInv
<1> SUFFICES ASSUME Init PROVE ListInv /\ PaneInv
  OBVIOUS
<1>1. PaneInv
  <2>1. /\ width \in Widths /\ noList = FALSE /\ wide = FALSE
        /\ res = 0 /\ hscroll = 0
    BY DEF Init
  <2>2. width \in Nat
    BY <2>1, TuiAssumption
  <2>3. PaneOK
    BY <2>1, <2>2 DEF PaneOK
  <2>4. ~(hscroll > 0)
    BY <2>1
  <2>5. QED
    BY <2>3, <2>4 DEF PaneInv, TableIsOnScreen
<1>2. Coll = 1 .. Len(Names) /\ Len(Names) \in Nat \ {0} /\ All \in Seq(Coll) /\ 1 \in Coll
  BY CollIs
<1>3. Len(All) = Len(Names) /\ All[1] = 1
  BY <1>2 DEF All
<1>4. vis \in Nat /\ vis > 0
  BY TuiAssumption DEF Init
<1>5. /\ collections = All /\ cursor = 0 /\ offset = 0 /\ filter = <<>>
      /\ inflight = [c \in Coll |-> IF c = 1 THEN 1 ELSE 0]
  BY DEF Init
<1>6. TypeOK
  <2>1. filter \in Seq(Letters) /\ inflight \in [Coll -> Nat]
    BY <1>5
  <2>2. collections \in Seq(Coll) /\ cursor \in Nat /\ offset \in Nat /\ vis \in Heights
    BY <1>2, <1>5 DEF Init
  <2>3. /\ filtOn \in BOOLEAN /\ loading \in BOOLEAN /\ resErr \in BOOLEAN
        /\ noList \in BOOLEAN /\ wide \in BOOLEAN /\ quitting \in BOOLEAN
        /\ patient \in BOOLEAN
    BY DEF Init
  <2>4. res = 0 /\ resFor = 0 /\ width \in Widths /\ hscroll = 0
    BY DEF Init
  <2>5. QED
    BY <2>1, <2>2, <2>3, <2>4 DEF TypeOK
<1>7. SelectionIsVisible
  BY <1>2, <1>3, <1>4, <1>5 DEF SelectionIsVisible
<1>8. Patience
  <2>1. Selected = 1
    BY <1>3, <1>5 DEF Selected
  <2>2. collections # <<>>
    BY <1>2, <1>3, <1>5
  <2>3. OneQuery(Selected)
    BY <1>5, <2>1 DEF OneQuery
  <2>4. QED
    BY <2>2, <2>3 DEF Patience, Init
<1>9. QED
  BY <1>1, <1>6, <1>7, <1>8 DEF ListInv

(* The inductive invariant: the list with its selection, the queries of an *)
(* operator who waits, and the panel.                                      *)
THEOREM InvHolds == Spec => [](ListInv /\ PaneInv)
<1>1. ListInv /\ PaneInv /\ [Next]_vars => (ListInv /\ PaneInv)'
  BY ListStep, PaneStep
<1>2. QED
  BY InitOK, <1>1, PTL DEF Spec

(* The variables of the interface keep their types, for every list of      *)
(* collections, filter and size.                                           *)
THEOREM TypeCorrect == Spec => []TypeOK
<1>1. ListInv => TypeOK
  BY DEF ListInv
<1>2. QED
  BY <1>1, InvHolds, PTL

(* clampCursor and applyFilter: after any keys, clicks, resizes and        *)
(* filters there is a selection unless the list is empty, and it is one of *)
(* the lines on the screen.                                                *)
THEOREM SelectionStays == Spec => []SelectionIsVisible
<1>1. ListInv => SelectionIsVisible
  BY DEF ListInv
<1>2. QED
  BY <1>1, InvHolds, PTL

(* tui.go:106 for an operator who waits for each answer, over any          *)
(* collections and filters: what is shown at rest is the selection's.      *)
THEOREM WaitingPays == Spec => []PatientSeesSelected
<1>1. ListInv => PatientSeesSelected
  <2> SUFFICES ASSUME ListInv, patient, Settled PROVE ShowsSelected
    BY DEF PatientSeesSelected
  <2>1. Patience /\ TypeOK /\ SelectionIsVisible /\ Idle /\ ~filtOn /\ collections # <<>>
    BY DEF ListInv, Settled
  <2>2. Selected \in Coll
    BY <2>1, SelectedIs
  <2>3. ~OneQuery(Selected)
    BY <2>1, <2>2 DEF OneQuery, Idle
  <2>4. QED
    BY <2>1, <2>3 DEF Patience
<1>2. QED
  BY <1>1, InvHolds, PTL

(* For every width of the terminal and of the tables, after any keys,      *)
(* resizes and answers: a table that is scrolled is still on the screen.   *)
THEOREM TableStays == Spec => []TableIsOnScreen
<1>1. PaneInv => TableIsOnScreen
  BY DEF PaneInv
<1>2. QED
  BY <1>1, InvHolds, PTL

-----------------------------------------------------------------------------
(* What the engine at place i of the registry says of the file f.          *)
Claimed(i, f) == Confidence(Registry[i], f)

LEMMA Claims ==
  ASSUME NEW f, NEW i \in 1 .. 6
  PROVE  Claimed(i, f) \in Nat /\ Registry[i] \in Registered /\ Registry[i] # ""
<1>1. /\ Registry[i] \in {"mariadb", "mongodb", "mysql", "postgres", "redis", "sqlite"}
      /\ Registry[i] \in Registered
  BY DEF Registry, Registered
<1> DEFINE e == Registry[i]
<1>2. e \in {"mariadb", "mongodb", "mysql", "postgres", "redis", "sqlite"}
  BY <1>1
<1>3. Claimed(i, f) = Confidence(e, f)
  BY DEF Claimed
<1> HIDE DEF e
<1>4. Confidence(e, f) \in Nat
  BY <1>2 DEF Confidence, PostgresDetect, MySQLDetect, MariaDBDetect,
     MongoDetect, RedisDetect, SQLiteDetect, Claim,
     Magic, Extension, Guess
<1>5. QED
  BY <1>1, <1>3, <1>4

(* The body of the loop of chooseEngine.                                   *)
Dispute(f, i, best) ==
  IF Better(Claimed(i, f), best)
  THEN [engine |-> Registry[i], confidence |-> Claimed(i, f)] ELSE best

(* The loop of chooseEngine as an equation.                                *)
LEMMA DisputeLoop ==
  ASSUME NEW f
  PROVE  \E g : /\ ChooseEngine(f) = g[6] /\ g[0] = NoEngine
                /\ \A i \in 1 .. 6 : g[i] = Dispute(f, i, g[i - 1])
<1> DEFINE Eq(g) == g = [i \in 0 .. Len(Registry) |->
                          IF i = 0 THEN NoEngine
                          ELSE LET e == Registry[i]
                               IN  IF Better(Confidence(e, f), g[i - 1])
                                   THEN [engine |-> e, confidence |-> Confidence(e, f)]
                                   ELSE g[i - 1]]
           V == [engine : Registered \cup {""}, confidence : Nat]
           d == [i \in 1 .. 6 |-> [v \in V |-> Dispute(f, i, v)]]
           a == NoEngine
<1>0. Len(Registry) = 6
  BY DEF Registry
<1>1. a \in V
  BY DEF NoEngine
<1>2. d \in [1 .. 6 -> [V -> V]]
  <2>1. ASSUME NEW i \in 1 .. 6, NEW v \in V PROVE Dispute(f, i, v) \in V
    <3>1. [engine |-> Registry[i], confidence |-> Claimed(i, f)] \in V
      BY Claims
    <3>2. QED
      BY <3>1 DEF Dispute
  <2>2. QED
    BY <2>1
<1>3. PICK g : Runs(g, 6, V, a, d)
  <2> HIDE DEF d, V, a
  <2>1. QED
    BY <1>1, <1>2, Loop
<1>4. g \in [0 .. 6 -> V] /\ g[0] = a /\ \A i \in 1 .. 6 : g[i] = d[i][g[i - 1]]
  BY <1>3 DEF Runs
<1>5. ASSUME NEW i \in 1 .. 6 PROVE g[i] = Dispute(f, i, g[i - 1])
  <2>1. i - 1 \in 0 .. 6
    OBVIOUS
  <2>2. g[i] = d[i][g[i - 1]] /\ g[i - 1] \in V
    <3> HIDE DEF V, d
    <3>1. QED
      BY <1>4, <2>1
  <2> HIDE DEF V
  <2>3. QED
    BY <2>2
<1>6. Eq(g)
  <2>1. ASSUME NEW i \in 0 .. 6
        PROVE  g[i] = IF i = 0 THEN NoEngine
                      ELSE IF Better(Confidence(Registry[i], f), g[i - 1])
                           THEN [engine |-> Registry[i],
                                 confidence |-> Confidence(Registry[i], f)]
                           ELSE g[i - 1]
    <3>1. CASE i = 0
      BY <1>4, <3>1
    <3>2. CASE i # 0
      <4>1. i \in 1 .. 6
        BY <3>2
      <4>2. g[i] = Dispute(f, i, g[i - 1])
        BY <1>5, <4>1
      <4>3. QED
        BY <3>2, <4>2 DEF Dispute, Claimed
    <3>3. QED
      BY <3>1, <3>2
  <2> HIDE DEF V, d
  <2>2. QED
    BY <1>0, <1>4, <2>1
<1>7. Eq(CHOOSE g_1 : Eq(g_1))
  <2> HIDE DEF Eq
  <2>1. QED
    BY <1>6
<1>8. ChooseEngine(f) = (CHOOSE g_1 : Eq(g_1))[Len(Registry)]
  BY DEF ChooseEngine
<1> DEFINE h == CHOOSE g_1 : Eq(g_1)
<1>9. Eq(h) /\ ChooseEngine(f) = h[6]
  BY <1>0, <1>7, <1>8
<1> HIDE DEF h
<1>10. h[0] = NoEngine
  BY <1>0, <1>9
<1>11. ASSUME NEW i \in 1 .. 6 PROVE h[i] = Dispute(f, i, h[i - 1])
  <2>1. i \in 0 .. 6 /\ i # 0
    OBVIOUS
  <2>2. QED
    BY <1>0, <1>9, <2>1 DEF Dispute, Claimed
<1>12. QED
  BY <1>9, <1>10, <1>11

(* What the dispute over f has after the first k engines: the first of     *)
(* those that claim f with the highest confidence, if one does.            *)
Leads(f, k, b) ==
  \/ b = NoEngine /\ \A j \in 1 .. k : Claimed(j, f) = 0
  \/ \E i \in 1 .. k :
       /\ b = [engine |-> Registry[i], confidence |-> Claimed(i, f)]
       /\ Claimed(i, f) > 0
       /\ \A j \in 1 .. k : Claimed(j, f) < Claimed(i, f)
                            \/ (Claimed(j, f) = Claimed(i, f) /\ i <= j)

LEMMA LeadsMore ==
  ASSUME NEW f, NEW k \in 0 .. 5, NEW b, Leads(f, k, b)
  PROVE  Leads(f, k + 1, Dispute(f, k + 1, b))
<1>1. \A j \in 1 .. 6 : Claimed(j, f) \in Nat
  BY Claims
<1>2. k + 1 \in 1 .. 6 /\ 1 .. k \subseteq 1 .. 6 /\ 1 .. k + 1 = (1 .. k) \cup {k + 1}
  OBVIOUS
<1> DEFINE c == Claimed(k + 1, f)
           new == [engine |-> Registry[k + 1], confidence |-> c]
<1>3. ASSUME Better(c, b) PROVE Leads(f, k + 1, new)
  <2>1. c > 0
    BY <1>3 DEF Better
  <2>2. ASSUME NEW j \in 1 .. k PROVE Claimed(j, f) < c
    <3>1. CASE \A i \in 1 .. k : Claimed(i, f) = 0
      BY <1>1, <1>2, <2>1, <3>1
    <3>2. ASSUME NEW i \in 1 .. k,
                 b = [engine |-> Registry[i], confidence |-> Claimed(i, f)],
                 Claimed(i, f) > 0, Claimed(j, f) <= Claimed(i, f)
          PROVE  Claimed(j, f) < c
      <4>1. b.confidence = Claimed(i, f) /\ NoEngine.confidence = 0
        BY <3>2 DEF NoEngine
      <4>2. c > Claimed(i, f)
        BY <1>3, <3>2, <4>1 DEF Better
      <4>3. QED
        BY <1>1, <1>2, <3>2, <4>2
    <3>3. QED
      BY <1>1, <1>2, <3>1, <3>2 DEF Leads
  <2> HIDE DEF c
  <2>3. \A j \in 1 .. k + 1 : Claimed(j, f) < c \/ (Claimed(j, f) = c /\ k + 1 <= j)
    BY <1>2, <2>2 DEF c
  <2>4. QED
    BY <1>2, <2>1, <2>3 DEF Leads, c
<1>4. ASSUME ~Better(c, b) PROVE Leads(f, k + 1, b)
  <2>1. CASE b = NoEngine /\ \A j \in 1 .. k : Claimed(j, f) = 0
    <3>1. c = 0
      BY <1>1, <1>2, <1>4, <2>1 DEF Better
    <3>2. QED
      BY <1>2, <2>1, <3>1 DEF Leads
  <2>2. ASSUME NEW i \in 1 .. k,
               b = [engine |-> Registry[i], confidence |-> Claimed(i, f)],
               Claimed(i, f) > 0,
               \A j \in 1 .. k : Claimed(j, f) < Claimed(i, f)
                                 \/ (Claimed(j, f) = Claimed(i, f) /\ i <= j)
        PROVE  Leads(f, k + 1, b)
    <3>1. b.confidence = Claimed(i, f)
      BY <2>2
    <3>2. c <= Claimed(i, f)
      BY <1>1, <1>2, <1>4, <2>2, <3>1 DEF Better
    <3>3. i \in 1 .. k + 1 /\ i <= k + 1
      BY <1>2, <2>2
    <3>4. \A j \in 1 .. k + 1 : Claimed(j, f) < Claimed(i, f)
                                \/ (Claimed(j, f) = Claimed(i, f) /\ i <= j)
      BY <1>1, <1>2, <2>2, <3>2, <3>3
    <3>5. QED
      BY <2>2, <3>3, <3>4 DEF Leads
  <2>3. QED
    BY <2>1, <2>2 DEF Leads
<1>5. QED
  BY <1>3, <1>4 DEF Dispute

LEMMA EngineLeads ==
  ASSUME NEW f
  PROVE  Leads(f, 6, ChooseEngine(f))
<1>1. PICK g : /\ ChooseEngine(f) = g[6] /\ g[0] = NoEngine
               /\ \A i \in 1 .. 6 : g[i] = Dispute(f, i, g[i - 1])
  BY DisputeLoop
<1> DEFINE C == {m \in Nat : m <= 6 => Leads(f, m, g[m])}
<1>2. 0 \in C
  BY <1>1 DEF Leads
<1>3. ASSUME NEW m \in Nat, m \in C PROVE m + 1 \in C
  <2> SUFFICES ASSUME m + 1 <= 6 PROVE Leads(f, m + 1, g[m + 1])
    OBVIOUS
  <2>1. m \in 0 .. 5 /\ Leads(f, m, g[m]) /\ m + 1 \in 1 .. 6
    BY <1>3
  <2>2. g[m + 1] = Dispute(f, m + 1, g[m])
    BY <1>1, <2>1
  <2>3. QED
    BY <2>1, <2>2, LeadsMore
<1>4. 6 \in C
  <2> HIDE DEF C
  <2>1. QED
    BY <1>2, <1>3, NumberInduction
<1>5. QED
  BY <1>1, <1>4

Line == [file : 1 .. N, label : Registered \cup {""}]

(* What a line was labelled is what the file would be called now, unless   *)
(* somebody touched it, and a file listed is not listed again.             *)
LinesHold ==
  \A x \in 1 .. Len(backups) :
    /\ backups[x].file \notin todo
    /\ backups[x].file \notin stale => backups[x].label = Label(backups[x].file)

(* What was picked from a list is the line under the cursor, of an engine. *)
PickHolds ==
  /\ picked # 0 => stage \in {"inspect", "provision", "failed"}
  /\ stage = "inspect" => picked # 0
  /\ picked # 0 /\ backups # <<>> =>
       line \in 1 .. Len(backups) /\ picked = backups[line].file /\ backups[line].label # ""

JudgeHolds ==
  stage = "provision" /\ forced = "" =>
    /\ ChooseEngine(backup.file) # NoEngine
    /\ backup.engine = ChooseEngine(backup.file).engine

PickerInv ==
  /\ DetectTypeOK /\ backup.ok \in BOOLEAN
  /\ Len(backups) + Cardinality(todo) <= N
  /\ stage = "args" => backups = <<>> /\ todo = {}
  /\ stage \in {"args", "find"} => line = 1
  /\ LinesHold /\ PickHolds /\ JudgeHolds
  /\ PickerKeepsItsWord

(* What inspect returns: the engine asked for, or the one that won.        *)
LEMMA Inspected ==
  ASSUME NEW f, NEW name
  PROVE  LET b == Inspect(f, name) IN
           /\ b.ok \in BOOLEAN
           /\ b.ok /\ name = "" =>
                /\ ChooseEngine(b.file) # NoEngine
                /\ b.engine = ChooseEngine(b.file).engine
                /\ b.engine \in Registered
<1> DEFINE w == [signs |-> dir[f].signs, ext |-> ext[f]]
           e == ChooseEngine(w)
           b == Inspect(f, name)
<1>1. Leads(w, 6, e)
  <2> HIDE DEF w
  <2>1. QED
    BY EngineLeads
<1>2. e # NoEngine => e.engine \in Registered
  <2> HIDE DEF w, e
  <2> SUFFICES ASSUME e # NoEngine PROVE e.engine \in Registered
    OBVIOUS
  <2>1. PICK i \in 1 .. 6 : e = [engine |-> Registry[i], confidence |-> Claimed(i, w)]
    BY <1>1 DEF Leads
  <2>2. e.engine = Registry[i]
    BY <2>1
  <2>3. QED
    BY <2>2, Claims
<1>3. \/ b = [ok |-> FALSE]
      \/ b = [ok |-> TRUE, engine |-> name, guessed |-> FALSE, file |-> w] /\ name # ""
      \/ /\ b = [ok |-> TRUE, engine |-> e.engine, guessed |-> Guessed(e), file |-> w]
         /\ e # NoEngine
  <2> HIDE DEF e
  <2>1. b = IF dir[f].state # "ok" THEN [ok |-> FALSE]
            ELSE IF name # "" THEN [ok |-> TRUE, engine |-> name, guessed |-> FALSE, file |-> w]
            ELSE IF e = NoEngine THEN [ok |-> FALSE]
            ELSE [ok |-> TRUE, engine |-> e.engine, guessed |-> Guessed(e), file |-> w]
    BY DEF e, Inspect, NoBackup, Backup
  <2> HIDE DEF b, w
  <2>2. QED
    BY <2>1
<1> HIDE DEF b
<1>4. CASE b = [ok |-> FALSE]
  BY <1>4 DEF b
<1>5. CASE b = [ok |-> TRUE, engine |-> name, guessed |-> FALSE, file |-> w] /\ name # ""
  <2>1. b.ok = TRUE /\ name # ""
    BY <1>5
  <2>2. QED
    BY <2>1 DEF b
<1>6. CASE /\ b = [ok |-> TRUE, engine |-> e.engine, guessed |-> Guessed(e), file |-> w]
           /\ e # NoEngine
  <2>1. b.ok = TRUE /\ b.engine = e.engine /\ b.file = w
    <3> HIDE DEF e, w
    <3>1. QED
      BY <1>6
  <2>2. e = ChooseEngine(b.file)
    BY <2>1, Zenon
  <2> HIDE DEF e
  <2>3. QED
    BY <1>2, <1>6, <2>1, <2>2 DEF b
<1>7. QED
  BY <1>3, <1>4, <1>5, <1>6

LEMMA Labels ==
  ASSUME NEW f
  PROVE  LET b == Inspect(f, "") IN
           /\ Label(f) \in Registered \cup {""}
           /\ Label(f) # "" => b.ok /\ b.engine = Label(f)
<1> DEFINE b == Inspect(f, "")
<1>1. Label(f) = IF b.ok THEN b.engine ELSE ""
  BY DEF Label
<1>2. b.ok \in BOOLEAN /\ (b.ok => b.engine \in Registered)
  BY Inspected
<1> HIDE DEF b
<1>3. QED
  BY <1>1, <1>2 DEF b

LEMMA PickerTypes ==
  /\ DetectTypeOK <=>
       /\ ext \in [1 .. N -> Endings] /\ dir \in [1 .. N -> Contents]
       /\ stale \subseteq 1 .. N /\ writes \in 0 .. MaxWrites /\ forced \in Flags
       /\ todo \subseteq 1 .. N /\ backups \in Seq(Line)
       /\ line \in 1 .. N /\ line <= Len(backups) + 1
       /\ stage \in {"args", "find", "pick", "inspect", "provision", "failed"}
       /\ stage = "pick" => line \in 1 .. Len(backups)
       /\ picked \in 0 .. N
       /\ stage = "provision" <=> backup.ok
  /\ DetectTypeOK => /\ Len(backups) \in Nat
                     /\ \A x \in 1 .. Len(backups) : backups[x].file \in 1 .. N
<1>1. DetectTypeOK => backups \in Seq(Line)
  BY DEF DetectTypeOK, Files, Line
<1>2. backups \in Seq(Line) => DOMAIN backups = 1 .. Len(backups) /\ Len(backups) \in Nat
  OBVIOUS
<1>3. ASSUME DetectTypeOK, NEW x \in 1 .. Len(backups) PROVE backups[x].file \in 1 .. N
  <2>1. backups[x] \in Line
    BY <1>1, <1>3
  <2>2. QED
    BY <2>1 DEF Line
<1>4. backups \in Seq(Line) <=> backups \in Seq([file : Files, label : Registered \cup {""}])
  BY DEF Line, Files
<1>5. QED
  BY <1>1, <1>2, <1>3, <1>4 DEF DetectTypeOK, Files

LEMMA PickerStarts ==
  ASSUME N \in Nat \ {0}, MaxWrites \in Nat, DetectInit
  PROVE  PickerInv
<1>1. /\ backups = <<>> /\ todo = {} /\ Len(backups) = 0 /\ line = 1 /\ picked = 0 /\ writes = 0
      /\ stage = "args" /\ forced \in Flags /\ stale = 1 .. N /\ backup = [ok |-> FALSE]
      /\ ext \in [1 .. N -> Endings] /\ dir \in [1 .. N -> Contents]
  BY DEF DetectInit, Files, NoBackup
<1>2. backup.ok = FALSE
  BY <1>1
<1>3. DetectTypeOK
  BY <1>1, <1>2, PickerTypes
<1>4. Cardinality(todo) = 0
  BY <1>1, FS_EmptySet
<1>5. PickerKeepsItsWord
  BY <1>1 DEF PickerKeepsItsWord
<1>6. QED
  BY <1>1, <1>2, <1>3, <1>4, <1>5 DEF PickerInv, LinesHold, PickHolds, JudgeHolds

(* Another process changes a file.                                         *)
LEMMA WriteKeeps ==
  ASSUME N \in Nat \ {0}, MaxWrites \in Nat, PickerInv, NEW f \in 1 .. N, Write(f)
  PROVE  PickerInv'
<1>1. /\ DetectTypeOK /\ stage \notin {"provision", "failed"}
  BY DEF PickerInv, Write
<1>2. PICK c \in Contents : dir' = [dir EXCEPT ![f] = c]
  BY DEF Write
<1>3. /\ stale' = stale \cup {f} /\ writes' = writes + 1 /\ writes < MaxWrites
      /\ UNCHANGED <<ext, forced, todo, backups, line, stage, picked, backup>>
  BY DEF Write
<1>4. DetectTypeOK'
  <2>1. /\ dir' \in [1 .. N -> Contents] /\ stale' \subseteq 1 .. N
        /\ writes' \in 0 .. MaxWrites
    BY <1>1, <1>2, <1>3, PickerTypes
  <2>2. QED
    BY <1>1, <1>3, <2>1 DEF DetectTypeOK, Files
<1>5. ASSUME NEW g \in 1 .. N, g # f PROVE Label(g)' = Label(g)
  <2>1. dir'[g] = dir[g]
    BY <1>1, <1>2, <1>5, PickerTypes
  <2>2. Inspect(g, "")' = Inspect(g, "")
    BY <1>3, <2>1 DEF Inspect
  <2>3. QED
    BY <2>2 DEF Label
<1>6. LinesHold'
  <2>1. ASSUME NEW x \in 1 .. Len(backups), backups[x].file \notin stale'
        PROVE  backups[x].label = Label(backups[x].file)'
    <3>1. backups[x].file \in 1 .. N
      BY <1>1, PickerTypes
    <3>2. QED
      BY <1>3, <1>5, <2>1, <3>1 DEF PickerInv, LinesHold
  <2>2. QED
    BY <1>3, <2>1 DEF PickerInv, LinesHold
<1>7. PickerKeepsItsWord' /\ PickHolds' /\ JudgeHolds'
  BY <1>1, <1>3 DEF PickerKeepsItsWord, PickerInv, PickHolds, JudgeHolds
<1>8. QED
  BY <1>3, <1>4, <1>6, <1>7 DEF PickerInv

(* main looks at its arguments.                                            *)
LEMMA ArgsKeeps ==
  ASSUME N \in Nat \ {0}, PickerInv, Args
  PROVE  PickerInv'
<1>1. DetectTypeOK /\ backups = <<>> /\ todo = {} /\ picked = 0 /\ stage = "args" /\ line = 1
  BY DEF PickerInv, PickHolds, Args
<1>2. UNCHANGED <<ext, dir, stale, writes, forced, backups, line, backup>>
  BY DEF Args
<1>3. \/ stage' = "failed" /\ todo' = todo /\ picked' = picked
      \/ stage' = "inspect" /\ todo' = todo /\ picked' \in 1 .. N
      \/ stage' = "find" /\ todo' \in SUBSET (1 .. N) /\ picked' = picked
  BY DEF Args, Files
<1>4. /\ todo' \in SUBSET (1 .. N) /\ stage' \in {"failed", "inspect", "find"} /\ picked' \in 0 .. N
      /\ picked' # 0 => stage' = "inspect"
      /\ stage' = "inspect" => picked' # 0
  BY <1>1, <1>3
<1>5. Cardinality(todo') \in Nat /\ Cardinality(todo') <= N
  <2>1. IsFiniteSet(1 .. N) /\ Cardinality(1 .. N) = N
    BY FS_Interval
  <2>2. IsFiniteSet(todo') /\ Cardinality(todo') <= N
    BY <1>4, <2>1, FS_Subset
  <2>3. QED
    BY <2>2, FS_CardinalityType
<1>6. DetectTypeOK'
  BY <1>1, <1>2, <1>4 DEF DetectTypeOK, Files
<1>7. Len(backups') = 0 /\ 1 .. Len(backups') = {}
  BY <1>1, <1>2
<1>8. LinesHold'
  BY <1>7 DEF LinesHold
<1>9. PickerKeepsItsWord' /\ PickHolds' /\ JudgeHolds'
  BY <1>1, <1>2, <1>4 DEF PickerKeepsItsWord, PickHolds, JudgeHolds
<1>10. QED
  BY <1>1, <1>2, <1>4, <1>5, <1>6, <1>7, <1>8, <1>9 DEF PickerInv

(* findBackups on one entry.                                               *)
LEMMA FindKeeps ==
  ASSUME N \in Nat \ {0}, PickerInv, Find
  PROVE  PickerInv'
<1>1. DetectTypeOK /\ stage = "find" /\ picked = 0 /\ LinesHold /\ Len(backups) \in Nat /\ backups \in Seq(Line)
  BY PickerTypes DEF PickerInv, PickHolds, Find
<1>2. PICK f \in todo :
        /\ backups' = IF dir[f].state = "gone" THEN backups
                    ELSE Append(backups, [file |-> f, label |-> Label(f)])
        /\ stale' = stale \ {f} /\ todo' = todo \ {f}
  BY DEF Find
<1>3. UNCHANGED <<ext, dir, writes, forced, line, stage, picked, backup>>
  BY DEF Find
<1>4. f \in 1 .. N /\ todo \in SUBSET (1 .. N) /\ stale \in SUBSET (1 .. N)
  BY <1>1, PickerTypes
<1>5. /\ Cardinality(todo) \in Nat /\ Cardinality(todo') = Cardinality(todo) - 1
      /\ Len(backups) + Cardinality(todo) <= N
  <2>1. IsFiniteSet(1 .. N)
    BY FS_Interval
  <2>2. IsFiniteSet(todo)
    BY <1>4, <2>1, FS_Subset
  <2>3. QED
    BY <1>2, <2>2, FS_CardinalityType, FS_RemoveElement DEF PickerInv
<1>6. ASSUME NEW g PROVE Label(g)' = Label(g)
  <2>1. Inspect(g, "")' = Inspect(g, "")
    BY <1>3 DEF Inspect
  <2>2. QED
    BY <2>1 DEF Label
<1> DEFINE new == [file |-> f, label |-> Label(f)]
<1>7. new \in Line /\ new.file = f /\ new.label = Label(f)
  BY <1>4, Labels DEF Line
<1> HIDE DEF new
<1>8. \/ backups' = backups
      \/ /\ backups' = Append(backups, new)
         /\ Len(backups') = Len(backups) + 1 /\ backups'[Len(backups) + 1] = new
         /\ \A x \in 1 .. Len(backups) : backups'[x] = backups[x]
  <2>1. backups' = backups \/ backups' = Append(backups, new)
    BY <1>2 DEF new
  <2>2. QED
    BY <1>1, <1>7, <2>1
<1>9. backups' \in Seq(Line) /\ Len(backups') + Cardinality(todo') <= N /\ Len(backups) <= Len(backups')
  <2>1. backups' \in Seq(Line)
    BY <1>1, <1>7, <1>8
  <2>2. Len(backups') = Len(backups) \/ Len(backups') = Len(backups) + 1
    BY <1>8
  <2>3. QED
    BY <1>1, <1>5, <2>1, <2>2
<1>10. DetectTypeOK'
  <2>1. /\ ext \in [1 .. N -> Endings] /\ dir \in [1 .. N -> Contents]
        /\ writes \in 0 .. MaxWrites /\ forced \in Flags
        /\ line \in 1 .. N /\ line <= Len(backups) + 1 /\ picked \in 0 .. N
        /\ stage = "provision" <=> backup.ok
    BY <1>1, PickerTypes
  <2>2. line <= Len(backups') + 1 /\ Len(backups') \in Nat
    BY <1>1, <1>9, <2>1
  <2>3. todo' \subseteq 1 .. N /\ stale' \subseteq 1 .. N
    BY <1>2, <1>4
  <2>4. QED
    BY <1>1, <1>3, <1>9, <2>1, <2>2, <2>3 DEF DetectTypeOK, Files, Line
<1>11. LinesHold'
  <2>1. ASSUME NEW x \in 1 .. Len(backups')
        PROVE  /\ backups'[x].file \notin todo'
               /\ backups'[x].file \notin stale' => backups'[x].label = Label(backups'[x].file)
    <3>1. CASE x \in 1 .. Len(backups) /\ backups'[x] = backups[x]
      <4>1. backups[x].file \notin todo /\ backups[x].file # f
        BY <1>1, <1>2, <3>1 DEF LinesHold
      <4>2. QED
        BY <1>1, <1>2, <3>1, <4>1 DEF LinesHold
    <3>2. CASE backups'[x] = new
      BY <1>2, <1>7, <3>2
    <3>3. QED
      BY <1>1, <1>8, <3>1, <3>2
  <2>2. QED
    BY <1>6, <2>1 DEF LinesHold
<1>12. PickerKeepsItsWord' /\ PickHolds' /\ JudgeHolds'
  BY <1>1, <1>3 DEF PickerKeepsItsWord, PickHolds, JudgeHolds
<1>13. QED
  BY <1>1, <1>3, <1>9, <1>10, <1>11, <1>12 DEF PickerInv

(* PickDump, once every entry was looked at.                               *)
LEMMA FoundKeeps ==
  ASSUME N \in Nat \ {0}, PickerInv, Found
  PROVE  PickerInv'
<1>1. /\ DetectTypeOK /\ stage = "find" /\ picked = 0 /\ line = 1
      /\ stage' = IF backups = <<>> THEN "failed" ELSE "pick"
      /\ UNCHANGED <<ext, dir, stale, writes, forced, todo, backups, line, picked, backup>>
  BY DEF PickerInv, PickHolds, Found
<1>2. backups \in Seq(Line) /\ Len(backups) \in Nat /\ line <= Len(backups) + 1 /\ ~backup.ok
  BY <1>1, PickerTypes DEF PickerInv
<1>3. stage' \in {"pick", "failed"} /\ (stage' = "pick" => line \in DOMAIN backups)
  <2>1. backups # <<>> => Len(backups) >= 1 /\ 1 \in 1 .. Len(backups)
    BY <1>2
  <2>2. QED
    BY <1>1, <1>2, <2>1
<1>4. DetectTypeOK'
  <2>1. /\ ext \in [1 .. N -> Endings] /\ dir \in [1 .. N -> Contents]
        /\ stale \subseteq 1 .. N /\ writes \in 0 .. MaxWrites /\ forced \in Flags
        /\ todo \subseteq 1 .. N /\ line \in 1 .. N /\ picked \in 0 .. N
    BY <1>1, PickerTypes
  <2>2. QED
    BY <1>1, <1>2, <1>3, <2>1 DEF DetectTypeOK, Files, Line
<1>5. LinesHold'
  <2>1. \A g : Label(g)' = Label(g)
    BY <1>1 DEF Label, Inspect
  <2>2. QED
    BY <1>1, <2>1 DEF LinesHold, PickerInv
<1>6. PickerKeepsItsWord' /\ PickHolds' /\ JudgeHolds'
  BY <1>1, <1>3 DEF PickerKeepsItsWord, PickHolds, JudgeHolds
<1>7. QED
  BY <1>1, <1>3, <1>4, <1>5, <1>6 DEF PickerInv

(* The picker's keys.                                                      *)
LEMMA PickKeeps ==
  ASSUME N \in Nat \ {0}, PickerInv, Pick
  PROVE  PickerInv'
<1>1. /\ DetectTypeOK /\ stage = "pick" /\ picked = 0 /\ line \in 1 .. Len(backups)
      /\ backups \in Seq(Line) /\ Len(backups) \in Nat /\ Len(backups) <= N
      /\ UNCHANGED <<ext, dir, stale, writes, forced, todo, backups, backup>>
  <2>1. DetectTypeOK /\ stage = "pick" /\ picked = 0
        /\ UNCHANGED <<ext, dir, stale, writes, forced, todo, backups, backup>>
    BY DEF PickerInv, PickHolds, Pick
  <2>2. todo \subseteq 1 .. N /\ backups \in Seq(Line) /\ line \in 1 .. Len(backups) /\ Len(backups) \in Nat
    BY <2>1, PickerTypes
  <2>3. IsFiniteSet(1 .. N)
    BY FS_Interval
  <2>4. Cardinality(todo) \in Nat
    BY <2>2, <2>3, FS_Subset, FS_CardinalityType
  <2>5. Len(backups) <= N
    BY <2>2, <2>4 DEF PickerInv
  <2>6. QED
    BY <2>1, <2>2, <2>5
<1>2. \/ line' \in {line - 1, line, line + 1} \cap 1 .. Len(backups) /\ stage' = stage /\ picked' = picked
      \/ line' = line /\ stage' = "failed" /\ picked' = picked
      \/ /\ line' = line /\ stage' = "inspect"
         /\ picked' = backups[line].file /\ backups[line].label # ""
  <2>1. \/ line' = (IF line > 1 THEN line - 1 ELSE line) /\ stage' = stage /\ picked' = picked
        \/ line' = (IF line < Len(backups) THEN line + 1 ELSE line) /\ stage' = stage /\ picked' = picked
        \/ line' = line /\ stage' = "failed" /\ picked' = picked
        \/ /\ line' = line /\ stage' = "inspect"
           /\ picked' = backups[line].file /\ backups[line].label # ""
    BY DEF Pick, Below, Selectable, PathAtCursor
  <2> DEFINE n == Len(backups)
  <2>2. line \in 1 .. n /\ n \in Nat
    BY <1>1
  <2> HIDE DEF n
  <2>3. /\ (IF line > 1 THEN line - 1 ELSE line) \in {line - 1, line, line + 1} \cap 1 .. n
        /\ (IF line < n THEN line + 1 ELSE line) \in {line - 1, line, line + 1} \cap 1 .. n
    BY <2>2
  <2>4. QED
    BY <2>1, <2>3 DEF n
<1>3. backups[line].file \in 1 .. N
  BY <1>1, PickerTypes
<1>4. line' \in 1 .. Len(backups)
  BY <1>1, <1>2
<1>5. line' \in 1 .. N /\ line' <= Len(backups) + 1
  <2> DEFINE n == Len(backups)
  <2>1. line' \in 1 .. n /\ n \in Nat /\ n <= N
    BY <1>1, <1>4
  <2> HIDE DEF n
  <2>2. line' \in 1 .. N /\ line' <= n + 1
    BY <2>1
  <2>3. QED
    BY <2>2 DEF n
<1>6. /\ stage' \in {"pick", "failed", "inspect"} /\ picked' \in 0 .. N
      /\ stage' = "inspect" => picked' # 0
  <2> DEFINE f == backups[line].file
  <2>1. f \in 1 .. N /\ ((stage' = "inspect" /\ picked' = f) \/ (stage' \in {"pick", "failed"} /\ picked' = 0))
    BY <1>1, <1>2, <1>3
  <2> HIDE DEF f
  <2>2. QED
    BY <2>1
<1>7. DetectTypeOK'
  <2>1. /\ ext \in [1 .. N -> Endings] /\ dir \in [1 .. N -> Contents]
        /\ stale \subseteq 1 .. N /\ writes \in 0 .. MaxWrites /\ forced \in Flags
        /\ todo \subseteq 1 .. N /\ ~backup.ok
    BY <1>1, PickerTypes DEF PickerInv
  <2>2. DOMAIN backups = 1 .. Len(backups)
    BY <1>1
  <2>3. QED
    BY <1>1, <1>4, <1>5, <1>6, <2>1, <2>2 DEF DetectTypeOK, Files, Line
<1>8. LinesHold'
  <2>1. \A g : Label(g)' = Label(g)
    BY <1>1 DEF Label, Inspect
  <2>2. QED
    BY <1>1, <2>1 DEF LinesHold, PickerInv
<1>9. PickHolds'
  <2>1. picked' # 0 => /\ stage' = "inspect" /\ line' = line
                       /\ picked' = backups[line].file /\ backups[line].label # ""
    BY <1>1, <1>2
  <2>2. QED
    BY <1>1, <1>6, <2>1 DEF PickHolds
<1>10. PickerKeepsItsWord' /\ JudgeHolds'
  <2>1. stage' # "provision" /\ (stage' = "failed" => picked' = 0)
    BY <1>1, <1>2
  <2>2. QED
    BY <2>1 DEF PickerKeepsItsWord, JudgeHolds
<1>11. QED
  BY <1>1, <1>5, <1>6, <1>7, <1>8, <1>9, <1>10 DEF PickerInv

(* InspectDumpAs on what was picked.                                       *)
LEMMA InspectKeeps ==
  ASSUME N \in Nat \ {0}, PickerInv, InspectDump
  PROVE  PickerInv'
<1>1. /\ DetectTypeOK /\ stage = "inspect" /\ LinesHold /\ PickHolds
      /\ backup' = Inspect(picked, forced)
      /\ stage' = IF backup'.ok THEN "provision" ELSE "failed"
      /\ UNCHANGED <<ext, dir, stale, writes, forced, todo, backups, line, picked>>
  BY DEF PickerInv, InspectDump
<1>2. /\ backup'.ok \in BOOLEAN
      /\ backup'.ok /\ forced = "" =>
           /\ ChooseEngine(backup'.file) # NoEngine
           /\ backup'.engine = ChooseEngine(backup'.file).engine
  BY <1>1, Inspected
<1>3. stage' \in {"provision", "failed"} /\ (stage' = "provision" <=> backup'.ok)
  BY <1>1, <1>2
<1>4. DetectTypeOK'
  BY <1>1, <1>3 DEF DetectTypeOK, Files
<1>5. LinesHold'
  <2>1. \A g : Label(g)' = Label(g)
    BY <1>1 DEF Label, Inspect
  <2>2. QED
    BY <1>1, <2>1 DEF LinesHold
<1>6. PickHolds' /\ JudgeHolds'
  BY <1>1, <1>2, <1>3 DEF PickHolds, JudgeHolds
<1>7. PickerKeepsItsWord'
  <2>1. ASSUME backups # <<>>, picked # 0
        PROVE  /\ picked = backups[line].file
               /\ picked \notin stale /\ forced = "" =>
                    backup'.ok /\ backup'.engine = backups[line].label
    <3>1. line \in 1 .. Len(backups) /\ picked = backups[line].file /\ backups[line].label # ""
      BY <1>1, <2>1 DEF PickHolds
    <3>2. picked \notin stale => backups[line].label = Label(picked)
      BY <1>1, <3>1 DEF LinesHold
    <3>3. QED
      BY <1>1, <3>1, <3>2, Labels
  <2>2. QED
    BY <1>1, <2>1 DEF PickerKeepsItsWord
<1>8. QED
  BY <1>1, <1>2, <1>3, <1>4, <1>5, <1>6, <1>7 DEF PickerInv

LEMMA PickerStep ==
  ASSUME N \in Nat \ {0}, MaxWrites \in Nat, PickerInv, [DetectNext]_detectVars
  PROVE  PickerInv'
<1>1. CASE \E f \in Files : Write(f)
  BY <1>1, WriteKeeps DEF Files
<1>2. CASE Args
  BY <1>2, ArgsKeeps
<1>3. CASE Find
  BY <1>3, FindKeeps
<1>4. CASE Found
  BY <1>4, FoundKeeps
<1>5. CASE Pick
  BY <1>5, PickKeeps
<1>6. CASE InspectDump
  BY <1>6, InspectKeeps
<1>7. CASE UNCHANGED detectVars
  <2>1. \A g : Label(g)' = Label(g)
    BY <1>7 DEF detectVars, Label, Inspect
  <2>2. LinesHold'
    BY <1>7, <2>1 DEF PickerInv, LinesHold, detectVars
  <2>3. QED
    BY <1>7, <2>2 DEF PickerInv, PickHolds, JudgeHolds, detectVars, DetectTypeOK,
       PickerKeepsItsWord
<1>8. QED
  BY <1>1, <1>2, <1>3, <1>4, <1>5, <1>6, <1>7 DEF DetectNext, ChooseDump

(* The invariant of picker and detection, for any directory, any writes    *)
(* meanwhile and any --engine.                                             *)
THEOREM PickerHolds == DetectSpec => []PickerInv
<1>1. N \in Nat \ {0} /\ MaxWrites \in Nat
  BY DetectAssumption
<1>2. DetectInit => PickerInv
  BY <1>1, PickerStarts
<1>3. PickerInv /\ [DetectNext]_detectVars => PickerInv'
  BY <1>1, PickerStep
<1>4. QED
  BY <1>2, <1>3, PTL DEF DetectSpec

(* Picker and detection keep their types.                                  *)
THEOREM PickerTypesHold == DetectSpec => []DetectTypeOK
<1>1. PickerInv => DetectTypeOK
  BY DEF PickerInv
<1>2. QED
  BY <1>1, PickerHolds, PTL

LEMMA Places == DOMAIN Registry = 1 .. 6
  BY DEF Registry

LEMMA JudgeIsBest == PickerInv => ChosenIsBest
<1> SUFFICES ASSUME PickerInv, stage = "provision", forced = ""
             PROVE  \E i \in DOMAIN Registry :
                      /\ backup.engine = Registry[i]
                      /\ Claimed(i, backup.file) > 0
                      /\ \A j \in DOMAIN Registry :
                           \/ Claimed(j, backup.file) < Claimed(i, backup.file)
                           \/ (Claimed(j, backup.file) = Claimed(i, backup.file) /\ i <= j)
  BY DEF ChosenIsBest, Claimed
<1>1. DOMAIN Registry = 1 .. 6
  BY Places
<1> DEFINE w == backup.file
           e == ChooseEngine(w)
<1>2. Leads(w, 6, e)
  <2> HIDE DEF w
  <2>1. QED
    BY EngineLeads
<1>3. e # NoEngine /\ backup.engine = e.engine
  BY DEF PickerInv, JudgeHolds
<1> HIDE DEF w, e
<1>4. PICK i \in 1 .. 6 :
        /\ e = [engine |-> Registry[i], confidence |-> Claimed(i, w)]
        /\ Claimed(i, w) > 0
        /\ \A j \in 1 .. 6 : \/ Claimed(j, w) < Claimed(i, w)
                             \/ (Claimed(j, w) = Claimed(i, w) /\ i <= j)
  BY <1>2, <1>3 DEF Leads
<1>5. e.engine = Registry[i]
  BY <1>4
<1>6. QED
  BY <1>1, <1>3, <1>4, <1>5 DEF w

(* detect.go:8-10: the engine provisioned is the first of the most         *)
(* confident ones.                                                         *)
THEOREM FirstOfTheBest == DetectSpec => []ChosenIsBest
<1>1. PickerInv => ChosenIsBest
  BY JudgeIsBest
<1>2. QED
  BY <1>1, PickerHolds, PTL

(* picker.go:15-25: what the line under the cursor said is what runs.      *)
THEOREM WordIsKept == DetectSpec => []PickerKeepsItsWord
<1>1. PickerInv => PickerKeepsItsWord
  BY DEF PickerInv
<1>2. QED
  BY <1>1, PickerHolds, PTL
=============================================================================
