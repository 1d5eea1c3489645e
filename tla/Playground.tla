------------------------------ MODULE Playground ------------------------------
(* The playground: a filter over a snapshot of a directory's files, edited *)
(* at a terminal, with a second box for a query by meaning if an embedding *)
(* model is given.                                                         *)
(*                                                                         *)
(* The toolkit hands the program one message at a time - a key, a new size,*)
(* the end of a command - and draws it after each.  Commands (walking the  *)
(* tree, embedding a query and walking) run beside it and end in any order.*)
(* The program is a value, here the record screen; its methods are         *)
(* functions from one such value to the next.                              *)
EXTENDS Integers, Sequences, FiniteSets, SequencesExt

CONSTANTS
  Snapshots,     \* what a walk may find: sequences of files
  RowLimit,      \* files a snapshot may have
  Filters,       \* what the filter box may hold; "" and "bad" among them
  Queries,       \* what the query box may hold; "" among them
  Matching,      \* filter -> the files it is true of, with any query or none
  Close,         \* query -> the files that are near to it
  Heights        \* heights the list of rows may have

ASSUME PlayAssumption ==
  /\ \A list \in Snapshots : list \in Seq(Range(list))
  /\ RowLimit \in Nat
  /\ "load" \notin Queries
  /\ Heights \subseteq Nat \ {0}      \* view.go: listHeight is at least 1

VARIABLES
  screen,        \* the program's value
  running,       \* commands that have not ended: "load", or a query
  window         \* open, left, or crashed while drawing

EmptyBox == ""

playVars == <<screen, running, window>>

-----------------------------------------------------------------------------
(* Filtering.  A filter that does not compile leaves the matches as they   *)
(* were; "near" looks at the scores a row has, and sees none in a plain one*)
RowsOfSnapshot(list, query) == [i \in 1 .. Len(list) |-> [file |-> list[i], query |-> query]]
HoldsFor(filter, row) ==
  IF filter = "near" THEN row.query # EmptyBox /\ row.file \in Close[row.query]
  ELSE filter = EmptyBox \/ row.file \in Matching[filter]
FilterHolds(rows, filter) ==
  LET found == {i \in 1 .. Len(rows) : HoldsFor(filter, rows[i])}
  IN  CHOOSE s \in [1 .. Cardinality(found) -> found] : \A i, j \in DOMAIN s : i < j => s[i] < s[j]

Least(i, j) == IF i < j THEN i ELSE j
Most(i, j) == IF i < j THEN j ELSE i

ClampScroll(m) ==
  LET up == Least(m.top, m.selected)
  IN  [m EXCEPT !.top = IF m.selected >= up + m.height THEN m.selected - m.height + 1 ELSE up,
                !.resized = FALSE]

Refilter_KeepsSelection(m) ==
  IF m.filter = "bad" THEN [m EXCEPT !.badFilter = TRUE]
  ELSE LET found == FilterHolds(m.results, m.filter)
       IN  ClampScroll([m EXCEPT !.badFilter = FALSE, !.matched = found])
Refilter(m) ==
  IF m.filter = "bad" THEN [m EXCEPT !.badFilter = TRUE]
  ELSE LET found == FilterHolds(m.results, m.filter)
       IN  ClampScroll([m EXCEPT !.badFilter = FALSE, !.matched = found,
                                 !.selected = Most(0, Least(@, Len(found) - 1))])

MoveBy(m, delta) ==
  IF m.matched = <<>> THEN m
  ELSE ClampScroll([m EXCEPT !.selected = Least(Most(0, @ + delta), Len(m.matched) - 1)])

-----------------------------------------------------------------------------
(* What is drawn: the rows in the window.  There is no guard against a     *)
(* match whose row is gone, and the toolkit ends a program that panics.    *)
RowsInView(m) == (m.top + 1) .. Least(Len(m.matched), m.top + m.height)
SelectedRow(m) == IF m.selected < Len(m.matched) THEN {m.selected + 1} ELSE {}
CanDraw(m) == \A i \in RowsInView(m) \cup SelectedRow(m) : m.matched[i] \in 1 .. Len(m.results)

Becomes(m) ==
  /\ window = "open"
  /\ screen' = m
  /\ window' = IF CanDraw(m) THEN "open" ELSE "crashed"

-----------------------------------------------------------------------------
PlayStart(semantic, filter, query, height) ==
  LET asks == semantic /\ query # EmptyBox
  IN  /\ screen =
           [semantic |-> semantic, first |-> IF semantic THEN query ELSE EmptyBox,
            results |-> <<>>, loaded |-> FALSE, loadErr |-> FALSE, capped |-> FALSE,
            searching |-> asks, searchErr |-> FALSE, hasSimilarity |-> FALSE,
            matched |-> <<>>, selected |-> 0, top |-> 0, badFilter |-> FALSE,
            filter |-> filter, query |-> IF semantic THEN query ELSE EmptyBox,
            panel |-> FALSE, focus |-> IF semantic THEN "query" ELSE "filter",
            cursor |-> IF semantic THEN {"query"} ELSE {"filter"},
            height |-> height, resized |-> FALSE]
      /\ running = <<IF asks THEN query ELSE "load">>
      /\ window = "open"
PlayInit ==
  \E semantic \in BOOLEAN, f \in Filters, q \in Queries, h \in Heights :
    /\ ~semantic => q = EmptyBox
    /\ PlayStart(semantic, f, q, h)

WithRows(m, list, query) ==
  LET kept == SubSeq(list, 1, Least(RowLimit, Len(list)))
  IN  [m EXCEPT !.loaded = TRUE, !.results = RowsOfSnapshot(kept, query),
                !.capped = Len(kept) >= RowLimit]

(* The plain snapshot arrives: whole, or what an interrupted walk found.   *)
LoadEnds(i, list, complete) ==
  /\ running[i] = "load"
  /\ running' = RemoveAt(running, i)
  /\ Becomes(Refilter([WithRows(screen, list, EmptyBox) EXCEPT !.loadErr = ~complete]))

(* A search by meaning ends: without rows, or with the nearest ones first. *)
SearchFails(i) ==
  /\ running[i] # "load"
  /\ running' = RemoveAt(running, i)
  /\ Becomes([screen EXCEPT !.searching = FALSE, !.loaded = TRUE, !.searchErr = TRUE])
NearestFirst(list, query) ==
  LET near == {i \in 1 .. Len(list) : list[i] \in Close[query]}
      before(i, j) == IF i \in near <=> j \in near THEN i < j ELSE i \in near
      place == CHOOSE p \in [1 .. Len(list) -> 1 .. Len(list)] :
                 \A i, j \in 1 .. Len(list) : i < j => before(p[i], p[j])
  IN  [i \in 1 .. Len(list) |-> list[place[i]]]
SearchEnds(i, list) ==
  LET query == running[i]
      m == [WithRows(screen, NearestFirst(list, query), query) EXCEPT
              !.searching = FALSE, !.searchErr = FALSE, !.hasSimilarity = TRUE]
  IN  /\ query # "load"
      /\ running' = RemoveAt(running, i)
      /\ Becomes(Refilter(m))

Resize(h) ==
  /\ h # screen.height
  /\ Becomes([screen EXCEPT !.height = h, !.resized = TRUE])
  /\ UNCHANGED running

-----------------------------------------------------------------------------
(* Keys.                                                                   *)
CloseScreen == window = "open" /\ window' = "left" /\ UNCHANGED <<screen, running>>

Enter ==
  \/ ~screen.semantic /\ CloseScreen
  \/ /\ screen.semantic /\ screen.focus = "query" /\ screen.query # EmptyBox /\ ~screen.searching
     /\ Becomes([screen EXCEPT !.searching = TRUE, !.searchErr = FALSE])
     /\ running' = Append(running, screen.query)

ApplyFocus(m) == [m EXCEPT !.cursor = {m.focus} \ {"attrs"}]

ToggleAttrs ==
  LET opens == ~screen.panel
      to == IF opens THEN "attrs" ELSE IF screen.semantic THEN "query" ELSE "filter"
  IN  /\ Becomes(ApplyFocus([screen EXCEPT !.panel = opens, !.focus = to]))
      /\ UNCHANGED running

CycleFocus ==
  LET order == (IF screen.semantic THEN <<"query">> ELSE <<>>) \o <<"filter">>
               \o (IF screen.panel THEN <<"attrs">> ELSE <<>>)
      at == SelectInSeq(order, LAMBDA f : f = screen.focus)
  IN  /\ Becomes(ApplyFocus([screen EXCEPT !.focus = order[1 + (Most(at, 1) % Len(order))]]))
      /\ UNCHANGED running

Navigate(delta) ==
  /\ screen.focus # "attrs"
  /\ Becomes(MoveBy(screen, delta))
  /\ UNCHANGED running

TypeQuery(q) ==
  /\ screen.semantic /\ screen.focus = "query" /\ q # screen.query
  /\ Becomes([screen EXCEPT !.query = q])
  /\ UNCHANGED running
TypeFilter(f) ==
  /\ screen.focus = "filter" /\ f # screen.filter
  /\ Becomes(Refilter([screen EXCEPT !.filter = f]))
  /\ UNCHANGED running

PlayNext ==
  \/ \E i \in 1 .. Len(running), list \in Snapshots :
       \/ \E complete \in BOOLEAN : LoadEnds(i, list, complete)
       \/ SearchEnds(i, list)
  \/ \E i \in 1 .. Len(running) : SearchFails(i)
  \/ \E h \in Heights : Resize(h)
  \/ CloseScreen \/ Enter \/ ToggleAttrs \/ CycleFocus
  \/ \E delta \in {-1, 1, -screen.height, screen.height} : Navigate(delta)
  \/ \E q \in Queries : TypeQuery(q)
  \/ \E f \in Filters : TypeFilter(f)

PlaySpec == PlayInit /\ [][PlayNext]_playVars

-----------------------------------------------------------------------------
(* The matches are those of the filter on the screen among the rows on the *)
(* screen, unless the filter does not compile; only then can a row that is *)
(* to be drawn be missing.                                                 *)
MatchesShown ==
  /\ screen.badFilter => screen.filter = "bad"
  /\ ~screen.badFilter => screen.matched = IF screen.filter = "bad" THEN <<>>
                                           ELSE FilterHolds(screen.results, screen.filter)
  /\ window = "crashed" => screen.badFilter

(* One row is selected if there are any, and it is in view unless the      *)
(* window has changed since.                                               *)
SelectionInView ==
  /\ screen.selected \in 0 .. Most(0, Len(screen.matched) - 1)
  /\ screen.top <= screen.selected
  /\ ~screen.resized => screen.selected < screen.top + screen.height

(* Keys go where the cursor is, to a box or panel that is there.           *)
KeysGoSomewhere ==
  /\ screen.cursor = {screen.focus} \ {"attrs"}
  /\ screen.focus = "attrs" => screen.panel
  /\ screen.focus = "query" => screen.semantic

(* One search by meaning at a time, shown as such until it ends; and rows  *)
(* have scores when the screen says so, except that a plain snapshot that  *)
(* was begun at the start may still replace them.                          *)
SearchesShown ==
  /\ screen.searching <=> \E i \in 1 .. Len(running) : running[i] # "load"
  /\ \A i, j \in 1 .. Len(running) : running[i] # "load" /\ running[j] # "load" => i = j
  /\ \A i \in 1 .. Len(screen.results) :
       screen.first # EmptyBox => screen.hasSimilarity /\ screen.results[i].query # EmptyBox

PlaygroundExact == MatchesShown /\ SelectionInView /\ KeysGoSomewhere /\ SearchesShown
=============================================================================
