----------------------------- MODULE TuiSidebar ------------------------------
\* The terminal UI under the keyboard and the mouse: views, the zone that owns the keys, and
\* the cursor, an index into rows (filter, menu, runs by day) that a poll or the filter
\* rebuilds at any moment. An effect of the sidebar puts the cursor back on its row.
EXTENDS Naturals, Integers, Sequences, SequencesExt

CONSTANTS
  Menu,           \* the views, in the order of the menu
  RunOrder, Day,  \* the runs, newest first, and the day of each
  Filters, Keeps  \* texts of the filter, "" among them, and the views and runs that match

VARIABLES runs, filter, view, zone, cursor, sel
vars == <<runs, filter, view, zone, cursor, sel>>

Views == ToSet(Menu)
Runs == ToSet(RunOrder)
None == "none"

-----------------------------------------------------------------------------
\* The rows; rules and headers of days are only to be seen.

Row(k, x) == [kind |-> k, id |-> x]
Shown(rs, f) == SelectSeq(RunOrder, LAMBDA r : r \in rs /\ r \in Keeps[f])

GroupRunsByDate(q) ==
  FlattenSeq([i \in DOMAIN q |->
    IF i > 1 /\ Day[q[i - 1]] = Day[q[i]] THEN <<Row("run", q[i])>>
    ELSE <<Row("group-header", Day[q[i]]), Row("run", q[i])>>])

BuildRowModel(rs, f) ==
  LET items == SelectSeq(Menu, LAMBDA v : v \in Keeps[f])
  IN <<Row("filter", None), Row("separator", None)>> \o [i \in DOMAIN items |-> Row("menu", items[i])]
     \o <<Row("separator", None)>> \o GroupRunsByDate(Shown(rs, f))

Rows == BuildRowModel(runs, filter)
Selectable(rows) == {i \in DOMAIN rows : rows[i].kind \in {"filter", "menu", "run"}}

\* The next row that can be selected in a direction, and the last one at the ends. There is
\* always one, the filter.
MoveSelection(rows, i, delta) ==
  LET ahead == {j \in Selectable(rows) : IF delta > 0 THEN j > i ELSE j < i}
  IN IF i \notin Selectable(rows) THEN 1
     ELSE IF ahead = {} THEN i
     ELSE CHOOSE j \in ahead : \A k \in ahead : IF delta > 0 THEN j <= k ELSE k <= j

\* Mutant: the index stays what it is.
PreserveRawIndex(old, i, new) == IF i \in Selectable(new) THEN i ELSE 1
\* A run is followed by its id; anything else keeps its index while that can be selected.
PreserveSidebarIndex(old, i, new) ==
  LET kept == {j \in DOMAIN new : i \in DOMAIN old /\ new[j] = old[i]}
  IN IF i \in DOMAIN old /\ old[i].kind = "run"
     THEN IF kept = {} THEN 1 ELSE CHOOSE j \in kept : TRUE
     ELSE IF i \in Selectable(new) THEN i ELSE 1

\* The effect of the sidebar after a change of the rows, and after a write of the cursor.
Rebuild(rs, f) == runs' = rs /\ filter' = f /\ cursor' = PreserveSidebarIndex(Rows, cursor, BuildRowModel(rs, f))
SetSidebarIndex(i) == cursor' = PreserveSidebarIndex(Rows, i, Rows)

-----------------------------------------------------------------------------
\* Views and zones.

MainZone(v) == CASE v = "new-task" -> {"prompt"} [] v = "run-details" -> {"log"}
                 [] v = "agents" -> {"agents"} [] v = "settings" -> {"settings"} [] OTHER -> {}
ZonesForView(v) == <<"sidebar-filter", "sidebar-list">> \o SetToSeq(MainZone(v))
MainZoneForView(v) == IF MainZone(v) = {} THEN "sidebar-list" ELSE CHOOSE z \in MainZone(v) : TRUE
TextEntry == zone \in {"sidebar-filter", "prompt"}

\* The zone after a switch to a view.
ZoneIn(v) == IF v = "new-task" THEN "prompt"
             ELSE IF zone \in ToSet(ZonesForView(v)) THEN zone ELSE MainZoneForView(v)
GoToView(v) == view' = v /\ zone' = ZoneIn(v)

\* Tab and Shift+Tab.
CycleZone(direction) ==
  LET zones == ZonesForView(view)
      at == IF zone \in ToSet(zones) THEN CHOOSE i \in DOMAIN zones : zones[i] = zone ELSE 1
  IN /\ zone' = zones[((at - 1 + direction + Len(zones)) % Len(zones)) + 1]
     /\ UNCHANGED <<runs, filter, view, cursor, sel>>

Escape == TextEntry /\ zone' = "sidebar-list" /\ UNCHANGED <<runs, filter, view, cursor, sel>>

\* 1-5: the cursor goes along if the filter shows the row.
JumpToView(v) ==
  /\ ~TextEntry /\ GoToView(v)
  /\ LET at == {i \in DOMAIN Rows : Rows[i] = Row("menu", v)}
     IN IF at = {} THEN UNCHANGED cursor ELSE SetSidebarIndex(CHOOSE i \in at : TRUE)
  /\ UNCHANGED <<runs, filter, sel>>

\* / outside of text fields, and Ctrl+F anywhere.
JumpToFilter ==
  /\ SetSidebarIndex(1) /\ zone' = "sidebar-filter" /\ UNCHANGED <<runs, filter, view, sel>>

TypeFilter(f) ==
  /\ zone = "sidebar-filter" /\ Rebuild(runs, f) /\ UNCHANGED <<view, zone, sel>>

\* j and k in the list.
MoveCursor(delta) ==
  /\ zone = "sidebar-list" /\ SetSidebarIndex(MoveSelection(Rows, cursor, delta))
  /\ UNCHANGED <<runs, filter, view, zone, sel>>

\* Enter on the row under the cursor.
ActivateSidebarRow ==
  /\ zone = "sidebar-list" /\ cursor \in DOMAIN Rows
  /\ LET row == Rows[cursor]
     IN \/ row.kind = "filter" /\ zone' = "sidebar-filter" /\ UNCHANGED <<view, sel>>
        \/ row.kind = "menu" /\ GoToView(row.id) /\ UNCHANGED sel
        \/ row.kind = "run" /\ sel' = row.id /\ GoToView("run-details")
  /\ UNCHANGED <<runs, filter, cursor>>

\* A click; it bubbles up to the list, which takes the keys, but from the filter it does not.
Click(i) ==
  /\ i \in Selectable(Rows) /\ SetSidebarIndex(i)
  /\ LET row == Rows[i]
     IN \/ row.kind = "filter" /\ zone' = "sidebar-filter" /\ UNCHANGED <<view, sel>>
        \/ row.kind = "menu" /\ view' = row.id /\ zone' = "sidebar-list" /\ UNCHANGED sel
        \/ row.kind = "run" /\ sel' = row.id /\ view' = "run-details" /\ zone' = "sidebar-list"
  /\ UNCHANGED <<runs, filter>>

ClickMain == zone' = MainZoneForView(view) /\ UNCHANGED <<runs, filter, view, cursor, sel>>

\* Shift+J and Shift+K on the log: the selected run moves, the cursor does not.
MoveRunSelection(delta) ==
  /\ zone = "log"
  /\ LET q == Shown(runs, filter)
         at == {i \in DOMAIN q : q[i] = sel}
         to == (CHOOSE i \in at : TRUE) + delta
     IN /\ q # <<>>
        /\ sel' = IF at = {} THEN q[1] ELSE IF to \in DOMAIN q THEN q[to] ELSE sel
  /\ UNCHANGED <<runs, filter, view, zone, cursor>>

\* A poll: new runs at the top, old ones pruned.
Refresh(rs) == rs # runs /\ Rebuild(rs, filter) /\ UNCHANGED <<view, zone, sel>>

Init == /\ runs = {} /\ filter = "" /\ view = "dashboard" /\ zone = "sidebar-list" /\ cursor = 1 /\ sel = None

Next ==
  \/ \E d \in {1, -1} : CycleZone(d) \/ MoveCursor(d) \/ MoveRunSelection(d)
  \/ Escape \/ JumpToFilter \/ ActivateSidebarRow \/ ClickMain
  \/ \E v \in Views : JumpToView(v)
  \/ \E f \in Filters : TypeFilter(f)
  \/ \E i \in 1..(5 + Len(Menu) + 2 * Len(RunOrder)) : Click(i)
  \/ \E rs \in SUBSET Runs : Refresh(rs)

Spec == Init /\ [][Next]_vars

-----------------------------------------------------------------------------
TypeOK == /\ runs \subseteq Runs /\ filter \in Filters /\ view \in Views /\ sel \in Runs \cup {None}
          /\ zone \in {"sidebar-filter", "sidebar-list", "prompt", "log", "settings", "agents"}
          /\ cursor \in Nat

\* The cursor is on a row that can be selected, and the keys go to a zone of the view on
\* screen, whatever polls, filters, clicks and keys came in between.
AlwaysSomewhere == cursor \in Selectable(Rows) /\ zone \in ToSet(ZonesForView(view))

\* A poll never yanks the cursor off its row: the menu row stays, and the run too, unless it
\* is gone from the list.
PollStep ==
  runs' # runs => \/ Rows'[cursor'] = Rows[cursor]
                  \/ Rows[cursor].kind = "run" /\ Rows[cursor].id \notin runs'

CursorStays == []AlwaysSomewhere /\ [][PollStep]_vars
=============================================================================
