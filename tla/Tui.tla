--------------------------------- MODULE Tui ---------------------------------
(***************************************************************************)
(* The TUI's list and its queries (internal/ui/tui.go): Update for every   *)
(* key, mouse event and answer, loadCurrent, clampCursor and applyFilter.  *)
(* A query runs in a goroutine of its own and answers with a message: the  *)
(* operator goes on pressing keys, several queries may be in flight, and   *)
(* their answers come in any order.                                        *)
(*                                                                         *)
(* A collection is its index in allCollections; a result is the collection *)
(* whose rows it holds.  Of the drawing only what decides which part of    *)
(* the table is on the screen is kept.                                     *)
(***************************************************************************)
EXTENDS Integers, Sequences, Functions

CONSTANTS
  Names,       \* allCollections, by name: a sequence of sequences of letters
  Letters,     \* what can be typed in a filter
  Heights,     \* values visibleRows() may take
  Widths,      \* widths of the terminal
  TableWidth,  \* width of a collection's rows, compact and with `wide'
  Arrow,       \* 8 in the code: what an arrow scrolls
  MaxFilter,   \* bound: letters in a filter
  MaxInFlight  \* bound: queries in flight

ASSUME TuiAssumption ==
  /\ Names \in Seq(Seq(Letters)) /\ Names # <<>>
  /\ Heights \subseteq Nat \ {0} /\ Heights # {}
  /\ Widths \subseteq Nat /\ Widths # {}
  /\ TableWidth \in [DOMAIN Names -> [BOOLEAN -> Nat]]
  /\ Arrow \in Nat
  /\ MaxFilter \in Nat /\ MaxInFlight \in Nat \ {0}

VARIABLES
  collections, \* the list after the filter
  cursor,      \* index of the selected line, from 0
  offset,      \* index of the first visible line
  vis,         \* visibleRows()
  filter,      \* the letters of the filter
  filtOn,      \* keys go to the filter
  loading,     \* the panel shows that a query runs
  res,         \* the collection whose rows are kept, 0 for nil
  resFor,      \* the collection they are kept for, 0 for ""
  resErr,      \* the kept answer is an error
  width,       \* the terminal's
  noList,      \* the list is hidden
  wide,        \* columns are as wide as their cells
  hscroll,     \* the first column of letters on the screen
  inflight,    \* queries sent and not answered, by collection
  quitting,    \* the program is over
  patient      \* the operator touches nothing while a query is in flight

list  == <<collections, cursor, offset, vis>>
mode  == <<filter, filtOn>>
kept  == <<res, resFor, resErr>>
pane  == <<width, noList, wide, hscroll>>
vars  == <<list, mode, loading, kept, pane, inflight, quitting, patient>>

Coll == DOMAIN Names

All == [k \in Coll |-> k]

(* strings.Contains(name, f), the case of letters apart.                   *)
Contains(name, f) ==
  \E k \in 0 .. Len(name) - Len(f) : SubSeq(name, k + 1, k + Len(f)) = f

(* The loop of applyFilter, over the first k collections.                  *)
Filtered(f) ==
  LET among[k \in 0 .. Len(Names)] ==
        IF k = 0 THEN <<>>
        ELSE IF Contains(Names[k], f) THEN Append(among[k - 1], k) ELSE among[k - 1]
  IN  among[Len(Names)]

Selected == collections[cursor + 1]
Idle     == \A c \in Coll : inflight[c] = 0

TypeOK ==
  /\ collections \in Seq(Coll)
  /\ cursor \in Nat
  /\ offset \in Nat
  /\ vis \in Heights
  /\ filter \in Seq(Letters)
  /\ filtOn \in BOOLEAN
  /\ loading \in BOOLEAN
  /\ res \in Coll \cup {0}
  /\ resFor \in Coll \cup {0}
  /\ resErr \in BOOLEAN
  /\ width \in Widths /\ noList \in BOOLEAN /\ wide \in BOOLEAN
  /\ hscroll \in Nat
  /\ inflight \in [Coll -> Nat]
  /\ quitting \in BOOLEAN
  /\ patient \in BOOLEAN

(* NewModel, and Init: the first query is sent at once.                    *)
Init ==
  /\ collections = All
  /\ cursor = 0
  /\ offset = 0
  /\ vis \in Heights
  /\ filter = <<>>
  /\ filtOn = FALSE
  /\ loading = TRUE
  /\ res = 0
  /\ resFor = 0
  /\ resErr = FALSE
  /\ width \in Widths /\ noList = FALSE /\ wide = FALSE /\ hscroll = 0
  /\ inflight = [c \in Coll |-> IF c = 1 THEN 1 ELSE 0]
  /\ quitting = FALSE
  /\ patient \in BOOLEAN

-----------------------------------------------------------------------------
\* Mutant: the last visible line is missed by one.
ClampCursorOff(wish) ==
  LET last == IF collections' = <<>> THEN 0 ELSE Len(collections') - 1
  IN  /\ cursor' = IF wish < 0 THEN 0 ELSE IF wish > last THEN last ELSE wish
      /\ offset' = IF cursor' < offset THEN cursor'
                   ELSE IF cursor' > offset + vis' THEN cursor' - vis' + 1
                   ELSE offset

(* clampCursor, from a wished cursor.                                      *)
ClampCursor(wish) ==
  LET last == IF collections' = <<>> THEN 0 ELSE Len(collections') - 1
  IN  /\ cursor' = IF wish < 0 THEN 0 ELSE IF wish > last THEN last ELSE wish
      /\ offset' = IF cursor' < offset THEN cursor'
                   ELSE IF cursor' >= offset + vis' THEN cursor' - vis' + 1
                   ELSE offset

(* loadCurrent, on the list as it is after the event: no query when the    *)
(* rows kept are those of the selection, or when there is no selection.    *)
LoadCurrent ==
  LET c == Selected'
  IN  IF collections' = <<>> \/ (c = resFor' /\ res' # 0)
        THEN UNCHANGED <<loading, inflight>>
        ELSE /\ SumFunctionOnSet(inflight, Coll) < MaxInFlight
             /\ loading' = TRUE
             /\ inflight' = [inflight EXCEPT ![c] = @ + 1]

\* Mutant: no line is selected.
ApplyFilterUnselects ==
  collections' = Filtered(filter') /\ cursor' = -1 /\ offset' = 0 /\ UNCHANGED vis
(* applyFilter: the cursor goes to the top, and nothing is loaded.         *)
ApplyFilter ==
  /\ collections' = Filtered(filter')
  /\ cursor' = 0
  /\ offset' = 0
  /\ UNCHANGED vis

Input == ~quitting /\ (patient => Idle)

(* Up, down, page up and down, home and end outside the filter.            *)
Wishes == {cursor - 1, cursor + 1, cursor - vis, cursor + vis,
           0, Len(collections) - 1}

MoveKey ==
  /\ Input /\ ~filtOn
  /\ UNCHANGED <<collections, vis, mode, kept, pane, quitting, patient>>
  /\ \E wish \in Wishes : ClampCursor(wish)
  /\ LoadCurrent

(* The wheel and a click on a visible line work in the filter too, as long *)
(* as the list is there to point at.                                       *)
Mouse ==
  /\ Input /\ ~noList
  /\ UNCHANGED <<collections, vis, mode, kept, pane, quitting, patient>>
  /\ \E wish \in {cursor - 1, cursor + 1}
                 \cup {k \in offset .. offset + vis - 1 : k < Len(collections)} :
        ClampCursor(wish)
  /\ LoadCurrent

(* enter, ctrl+j, r: the rows kept no longer count.                        *)
Reload ==
  /\ Input /\ ~filtOn
  /\ resFor' = 0
  /\ UNCHANGED <<list, mode, res, resErr, pane, quitting, patient>>
  /\ LoadCurrent

(* "/" opens the filter, letters and backspace edit it.                    *)
OpenFilter ==
  /\ Input /\ ~filtOn
  /\ filtOn' = TRUE /\ filter' = <<>>
  /\ ApplyFilter
  /\ UNCHANGED <<loading, kept, pane, inflight, quitting, patient>>

EditFilter ==
  /\ Input /\ filtOn
  /\ \/ /\ Len(filter) < MaxFilter
        /\ \E a \in Letters : filter' = Append(filter, a)
     \/ /\ filter # <<>>
        /\ filter' = SubSeq(filter, 1, Len(filter) - 1)
  /\ ApplyFilter
  /\ UNCHANGED <<filtOn, loading, kept, pane, inflight, quitting, patient>>

(* esc forgets the filter, enter keeps it; both load the selection.        *)
DropFilter ==
  /\ Input /\ filtOn
  /\ filtOn' = FALSE /\ filter' = <<>>
  /\ ApplyFilter
  /\ UNCHANGED <<kept, pane, quitting, patient>>
  /\ LoadCurrent

\* Mutant: enter closes the filter and loads nothing.
KeepFilterUnloaded ==
  /\ Input /\ filtOn
  /\ filtOn' = FALSE
  /\ UNCHANGED <<list, filter, loading, kept, pane, inflight, quitting, patient>>

KeepFilter ==
  /\ Input /\ filtOn
  /\ filtOn' = FALSE
  /\ UNCHANGED <<list, filter, kept, pane, quitting, patient>>
  /\ LoadCurrent

(* The terminal is resized: the cursor is clamped, nothing is loaded, and  *)
(* the table stays where it was.                                           *)
Resize ==
  /\ ~quitting
  /\ vis' \in Heights /\ width' \in Widths
  /\ UNCHANGED collections
  /\ ClampCursor(cursor)
  /\ UNCHANGED <<mode, loading, kept, noList, wide, hscroll, inflight, quitting, patient>>

(* q, ctrl+c or esc, outside the filter only.                              *)
Quit ==
  /\ Input /\ ~filtOn
  /\ quitting' = TRUE
  /\ UNCHANGED <<list, mode, loading, kept, pane, inflight, patient>>

(* listW, resultW and tableViewW, of the panes as they are after the event.*)
ListW(w) == LET third == w \div 3
            IN  IF third > 56 THEN 56 ELSE IF third < 40 THEN 40 ELSE third
ViewW ==
  LET left == width - (IF noList THEN 0 ELSE ListW(width)) - 2
  IN  (IF left < 20 THEN 20 ELSE left) - 4

(* scrollBy, for the table that is kept: no further than its end.          *)
ScrollBy(d) ==
  LET limit == IF res = 0 THEN 0 ELSE TableWidth[res][wide'] - ViewW'
      least == IF hscroll + d > limit THEN limit ELSE hscroll + d
  IN  hscroll' = IF least < 0 THEN 0 ELSE least

(* What "$" scrolls by: 1 << 30.                                           *)
Far == 1073741824

(* Left and right by an arrow or a screen, "0" and "$".                    *)
ScrollKey ==
  /\ Input /\ ~filtOn
  /\ UNCHANGED <<list, mode, loading, kept, width, noList, wide, inflight, quitting, patient>>
  /\ \/ \E d \in {-Arrow, Arrow, -ViewW, ViewW, Far} : ScrollBy(d)
     \/ hscroll' = 0

\* Mutant: the columns shrink and the table stays where it was.
ExpandKeyStays ==
  /\ Input /\ ~filtOn
  /\ wide' = ~wide
  /\ UNCHANGED <<list, mode, loading, kept, width, noList, hscroll, inflight, quitting, patient>>

(* "e": columns in full or cut.                                            *)
ExpandKey ==
  /\ Input /\ ~filtOn
  /\ wide' = ~wide
  /\ UNCHANGED <<list, mode, loading, kept, width, noList, inflight, quitting, patient>>
  /\ ScrollBy(0)

(* tab: the list is hidden or shown.                                       *)
TabKey ==
  /\ Input /\ ~filtOn
  /\ noList' = ~noList
  /\ UNCHANGED <<list, mode, loading, kept, width, wide, inflight, quitting, patient>>
  /\ ScrollBy(0)

\* Mutant: an error leaves the panel as it was.
QueryDoneSpins(c) ==
  /\ ~quitting /\ inflight[c] > 0
  /\ inflight' = [inflight EXCEPT ![c] = @ - 1]
  /\ resErr' \in BOOLEAN
  /\ resFor' = c
  /\ loading' = (loading /\ resErr')
  /\ res' = IF resErr' THEN 0 ELSE c
  /\ hscroll' = 0
  /\ UNCHANGED <<list, mode, width, noList, wide, quitting, patient>>

(* queryDoneMsg: whatever query it answers, its rows replace those kept.   *)
QueryDone(c) ==
  /\ ~quitting
  /\ inflight[c] > 0
  /\ inflight' = [inflight EXCEPT ![c] = @ - 1]
  /\ loading' = FALSE
  /\ resFor' = c
  /\ resErr' \in BOOLEAN
  /\ res' = IF resErr' THEN 0 ELSE c
  /\ hscroll' = 0
  /\ UNCHANGED <<list, mode, width, noList, wide, quitting, patient>>

Answer == \E c \in Coll : QueryDone(c)

Operator ==
  \/ MoveKey \/ Mouse \/ Reload \/ OpenFilter \/ EditFilter
  \/ DropFilter \/ KeepFilter \/ Resize \/ Quit
  \/ ScrollKey \/ ExpandKey \/ TabKey

Next == Operator \/ Answer

(* Every query is answered some day; the operator owes nothing.            *)
Spec == Init /\ [][Next]_vars /\ \A c \in Coll : WF_vars(QueryDone(c))

-----------------------------------------------------------------------------
(* clampCursor's job, over filters, resizes, pages and clicks: the         *)
(* selection exists and is one of the lines on the screen.                 *)
SelectionIsVisible ==
  /\ cursor < Len(collections) \/ (cursor = 0 /\ collections = <<>>)
  /\ offset <= cursor /\ cursor < offset + vis

(* "consultando..." is never there for ever: once shown it goes away,      *)
(* unless the operator keeps asking or quits.                              *)
SpinnerEnds == loading ~> ~loading \/ quitting

(* renderTable and its "colunas a-b de c": after any keys, resizes and     *)
(* answers a table that is scrolled still fills at least the 16 letters of *)
(* the narrowest panel; it is never off the screen.                        *)
TableIsOnScreen ==
  hscroll > 0 => res # 0 /\ hscroll + 16 <= TableWidth[res][wide]

(* Nothing in flight, nothing being filtered: the panel is settled.        *)
Settled == Idle /\ ~filtOn /\ ~quitting /\ collections # <<>>

ShowsSelected == resFor = Selected /\ (res = Selected \/ resErr)

(* tui.go:106 for an operator who waits for each answer: once settled, the *)
(* rows (or the error) on the screen are those of the selected collection, *)
(* after any sequence of moves, filters, reloads and failed queries.       *)
PatientSeesSelected == patient /\ Settled => ShowsSelected

(* tui.go:106 and the title of tui.go:429, "N mais recentes · <selected>": *)
(* the same for any operator.                                              *)
SettledShowsSelected == Settled => ShowsSelected
=============================================================================
