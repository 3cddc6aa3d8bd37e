------------------------------ MODULE Browser ------------------------------
(***************************************************************************)
(* The pages of the browser (browser.c) over the table of entries          *)
(* (appentry.c): slots, filter and sort order on one side, the two banks   *)
(* of widgets, the focus and the page offset on the other.                 *)
(*                                                                         *)
(* browser_gen_view fills the hidden bank, slides it in over 20 frames and *)
(* frees the other one.  During the frames the pointer can move the focus  *)
(* and the app entry thread can reload the table.  browser_sel finds the   *)
(* entry under the focus by arithmetic on the page offset.                 *)
(*                                                                         *)
(* AppEntry models the protocol between main and the thread.  Here the     *)
(* thread only follows it: it reloads after main has read the REMOVE       *)
(* (TableAgrees of AppEntry).                                              *)
(***************************************************************************)
EXTENDS Integers, Sequences, SequencesExt, FiniteSets

CONSTANTS
    Apps, NoApp, Garbage,
    MaxEntries,    \* MAX_ENTRIES
    Order,         \* Order[s] lists the applications as cmp_app_entry sorts them for s
    Listing,       \* the applications as readdir lists them
    Dated,         \* the applications that have a meta.xml
    Rows, Columns, MaxColumns  \* ROWS, columns of the grid on this screen, MAX_COLUMNS

ASSUME BrowserAssumption ==
    /\ NoApp \notin Apps /\ Garbage \notin Apps \union {NoApp} /\ Dated \subseteq Apps
    /\ IsFiniteSet(Apps)
    /\ MaxEntries \in Nat \ {0} /\ Rows \in Nat \ {0}
    /\ MaxColumns \in Nat \ {0} /\ Columns \in 2..MaxColumns
    /\ Listing \in SetToSeqs(Apps)
    /\ \A s \in {"NAME", "DATE"} : Order[s] \in SetToSeqs(Apps)

VARIABLES
    slots, entry_count_all, entries, sort,   \* the table; filter follows sort
    phase,         \* what the thread did last, see below
    read,          \* how far it has read the directory in this load, else 0
    top_offset, columns_current, columns_new, first_set, focus,
    less, more,    \* are the arrows visible?
    drawn,         \* the widgets of both banks: what each draws
    mpc, gen, app_sel,   \* main: where it is, browser_gen_view's locals
    clobbered, stale     \* history, see the properties

table == <<slots, entry_count_all, entries, sort>>
thread == <<phase, read>>
layout == <<top_offset, columns_current, columns_new>>
widgets == <<first_set, focus, less, more, drawn>>
hist == <<clobbered, stale>>
browserVars == <<table, thread, layout, widgets, mpc, gen, app_sel, hist>>

---------------------------------------------------------------------------
(* The table.                                                              *)

TableSlots == 0..(MaxEntries - 1)
Used(s) == {i \in TableSlots : s[i] # NoApp}
Holding(s, a) == {i \in TableSlots : s[i] = a}
First(S) == CHOOSE i \in S : \A j \in S : i <= j

\* app_entry_filter: by date only the entries that have one are shown.
app_entry_filter(s) ==
    LET shown(a) == IF sort = "DATE" /\ a \notin Dated THEN {} ELSE Holding(s, a)
        copies(a) == [j \in 1..Cardinality(shown(a)) |-> a]
    IN  FlattenSeq([k \in DOMAIN Order[sort] |-> copies(Order[sort][k])])

Freed == [i \in TableSlots |-> NoApp]

app_entries_free == slots' = Freed /\ entry_count_all' = 0 /\ entries' = <<>>

---------------------------------------------------------------------------
(* Pages.                                                                  *)

AeOffset == 5
Bank == MaxColumns * Rows
Base(b) == AeOffset + b * Bank
Positions == 0..(2 * Bank - 1)
WidgetCount == AeOffset + 2 * Bank

Page == columns_new * Rows
Shown == IF first_set THEN 0 ELSE 1      \* the bank on the screen

InBank(w, b) == w \in Base(b)..(Base(b) + Bank - 1)

\* A faulty version: in pages of the layout that goes.
SetTopOffsetOldLayout(app) ==
    IF app = NoApp \/ entries = <<>> THEN 0
    ELSE LET here == {i \in DOMAIN entries : entries[i] = app}
             i == IF here = {} THEN top_offset ELSE First(here) - 1
             size == columns_current * Rows
             t == (i \div size) * size
         IN  IF t > Len(entries) - 1 THEN t - size ELSE t

browser_set_top_offset(app) ==
    IF app = NoApp \/ entries = <<>> THEN 0
    ELSE LET here == {i \in DOMAIN entries : entries[i] = app}
             i == IF here = {} THEN top_offset ELSE First(here) - 1
             t == (i \div Page) * Page
         IN  IF t > Len(entries) - 1 THEN t - Page ELSE t

\* A faulty version: takes the bank that slides in next for the one shown.
SelOtherBank ==
    LET i == top_offset + focus - Base(1 - Shown)
    IN  IF entries = <<>> \/ focus < AeOffset THEN NoApp
        ELSE IF i + 1 \in DOMAIN entries THEN entries[i + 1] ELSE Garbage

\* The entry under the focus; the index is not checked.
browser_sel ==
    LET i == top_offset + focus - Base(Shown)
    IN  IF entries = <<>> \/ focus < AeOffset THEN NoApp
        ELSE IF i + 1 \in DOMAIN entries THEN entries[i + 1] ELSE Garbage

\* An entry to focus that the filter has hidden: the page offset is kept.
Lost(app) == app # NoApp /\ app \notin Range(entries)

\* browser_gen_view up to its animation; the caller goes on at "then".
GenView(action, top, app, then) ==
    LET new == 1 - Shown
        visible(p) == action # "REMOVE" /\ p - new * Bank \in 0..(Page - 1)
        index(p) == top + p - new * Bank + 1
    IN  /\ top_offset' = top
        /\ first_set' = ~first_set
        /\ drawn' = [p \in Positions |->
              IF p \div Bank # new THEN drawn[p]
              ELSE IF visible(p) /\ index(p) \in DOMAIN entries
              THEN entries[index(p)] ELSE NoApp]
        /\ LET at == {p \in Positions : p \div Bank = new /\ app # NoApp /\ drawn'[p] = app}
           IN  gen' = [remove |-> action = "REMOVE", then |-> then,
                       focus |-> AeOffset + IF at = {} THEN new * Bank ELSE First(at),
                       less |-> action # "REMOVE" /\ top > 0,
                       more |-> action # "REMOVE" /\ Len(entries) > top + Page]
        /\ mpc' = "slide"
        /\ stale' = (Lost(app) \/ (stale /\ action \in {"NEXT", "PREV"}))
        /\ UNCHANGED <<columns_current, columns_new, focus, less, more>>

NoGen == [remove |-> FALSE, then |-> "input", focus |-> 0, less |-> FALSE, more |-> FALSE]

BrowserInit ==
    /\ slots = Freed /\ entry_count_all = 0 /\ entries = <<>>
    /\ sort \in {"NAME", "DATE"} /\ phase = "empty" /\ read = 0
    /\ top_offset = 0 /\ columns_current = 1 /\ columns_new \in {1, Columns}
    /\ first_set = TRUE /\ focus = -1 /\ less = FALSE /\ more = FALSE
    /\ drawn = [p \in Positions |-> NoApp]
    /\ mpc = "input" /\ app_sel = NoApp
    /\ gen = NoGen
    /\ clobbered = FALSE /\ stale = FALSE

---------------------------------------------------------------------------
(* The thread: "shown" --> "gone" (the device left, REMOVE) --> "empty"    *)
(* (main has read it) --> "loading" --> "added" (ADD) --> "shown".         *)

Pull ==
    /\ phase \in {"shown", "added"}
    /\ phase' = "gone" /\ stale' = (stale \/ phase = "added")
    /\ UNCHANGED <<table, read, layout, widgets, mpc, gen, app_sel, clobbered>>

LoadFree ==
    /\ phase = "empty"
    /\ app_entries_free
    /\ phase' = "loading" /\ read' = 0 /\ clobbered' = FALSE
    /\ UNCHANGED <<sort, layout, widgets, mpc, gen, app_sel, stale>>

\* A directory is read into the slot after the last one used, or, when main
\* has added an entry to a full table meanwhile, past the end of the table.
LoadEntry ==
    /\ phase = "loading"
    /\ \E i \in (read + 1)..Len(Listing) :
          /\ read' = i
          /\ slots' = IF entry_count_all \in TableSlots
                      THEN [slots EXCEPT ![entry_count_all] = Listing[i]] ELSE slots
    /\ entry_count_all' = entry_count_all + 1
    /\ phase' = IF entry_count_all' >= MaxEntries THEN "filter" ELSE "loading"
    /\ UNCHANGED <<entries, sort, layout, widgets, mpc, gen, app_sel, hist>>

LoadDone ==
    /\ phase \in {"loading", "filter"}
    /\ entries' = app_entry_filter(slots)
    /\ phase' = "added" /\ read' = 0
    /\ UNCHANGED <<slots, entry_count_all, sort, layout, widgets, mpc, gen, app_sel, hist>>

Thread == Pull \/ LoadFree \/ LoadEntry \/ LoadDone

---------------------------------------------------------------------------
(* The animation.                                                          *)

Focusable(w, left, right) ==
    \/ w = 0 /\ left
    \/ w = 1 /\ right
    \/ w - AeOffset \in Positions /\ drawn[w - AeOffset] # NoApp

Targets(left, right) == {w \in 0..(WidgetCount - 1) : Focusable(w, left, right)}

\* Half of the way the arrows and the focus change.  In each frame after that
\* the pointer, if there is one, takes the focus to the widget under it, which
\* may be one that slides out.  At the end the old bank is freed, and main
\* goes on with what it made the view for.
SlideEnd ==
    /\ mpc = "slide"
    /\ less' = gen.less /\ more' = gen.more
    /\ focus' \in {gen.focus, -1} \union Targets(gen.less, gen.more)
    /\ drawn' = [p \in Positions |-> IF p \div Bank = Shown THEN drawn[p] ELSE NoApp]
    /\ columns_current' = columns_new
    /\ top_offset' = IF gen.remove THEN 0 ELSE top_offset
    /\ IF gen.then = "free"
       THEN app_entries_free /\ phase' = "empty" /\ mpc' = "input"
       ELSE UNCHANGED <<slots, entry_count_all, entries, phase>> /\ mpc' = gen.then
    /\ gen' = NoGen
    /\ UNCHANGED <<sort, read, columns_new, first_set, app_sel, hist>>

---------------------------------------------------------------------------
(* What main does with a frame of the browser.                             *)

ActRemove ==
    /\ mpc = "input" /\ phase = "gone"
    /\ GenView("REMOVE", top_offset, NoApp, "free")
    /\ UNCHANGED <<table, thread, app_sel, clobbered>>

\* settings.app_sel may name an entry.
ActAdd ==
    /\ mpc = "input" /\ phase = "added"
    /\ phase' = "shown"
    /\ \E app \in Range(entries) \union {NoApp} :
          GenView("ADD", browser_set_top_offset(app), app, "input")
    /\ UNCHANGED <<table, read, app_sel, clobbered>>

NextPage ==
    /\ mpc = "input"
    /\ Len(entries) > top_offset + Page
    /\ GenView("NEXT", top_offset + columns_current * Rows, NoApp, "input")
    /\ UNCHANGED <<table, thread, app_sel, clobbered>>

PrevPage ==
    /\ mpc = "input"
    /\ top_offset >= 1 /\ top_offset >= columns_current * Rows
    /\ GenView("PREV", top_offset - columns_current * Rows, NoApp, "input")
    /\ UNCHANGED <<table, thread, app_sel, clobbered>>

\* browser_switch_mode sets columns_new before it makes the view.
SwitchMode ==
    /\ mpc = "input"
    /\ columns_new' = IF columns_current = 1 THEN Columns ELSE 1
    /\ mpc' = "switch" /\ app_sel' = browser_sel
    /\ UNCHANGED <<table, thread, top_offset, columns_current, widgets, gen, hist>>

Switched ==
    /\ mpc = "switch"
    /\ GenView("REFRESH", browser_set_top_offset(app_sel), app_sel, "input")
    /\ app_sel' = NoApp
    /\ UNCHANGED <<table, thread, clobbered>>

\* The pointer, between two frames.
Point ==
    /\ mpc = "input"
    /\ focus' \in Targets(less, more) \union {-1}
    /\ UNCHANGED <<table, thread, layout, first_set, less, more, drawn, mpc, gen, app_sel, hist>>

\* browser_set_focus, by view_set_focus_prev, view_set_focus_next and
\* view_move_focus: to the side along the focusable widgets, in the grid up
\* and down by a row.
Move ==
    /\ mpc = "input"
    /\ LET targets == Targets(less, more)
           before == {w \in targets : w < focus}
           after == {w \in targets : w > focus}
       IN  \/ before # {} /\ focus' = CHOOSE w \in before : \A v \in before : v <= w
           \/ after # {} /\ focus' = First(after)
           \/ /\ columns_current # 1
              /\ focus' \in {focus - columns_current, focus + columns_current} \intersect targets
              /\ focus' >= 1
    /\ UNCHANGED <<table, thread, layout, first_set, less, more, drawn, mpc, gen, app_sel, hist>>

\* The detail view's "delete": BA_REMOVE, manage_run, app_entry_remove.
Delete ==
    /\ mpc = "input" /\ browser_sel \in Apps
    /\ app_sel' = browser_sel
    /\ GenView("REMOVE", top_offset, NoApp, "delete")
    /\ UNCHANGED <<table, thread, clobbered>>

app_entry_remove(app) ==
    IF Holding(slots, app) = {} THEN UNCHANGED <<slots, entry_count_all, entries>>
    ELSE /\ slots' = [slots EXCEPT ![First(Holding(slots, app))] = NoApp]
         /\ entry_count_all' = entry_count_all - 1
         /\ entries' = app_entry_filter(slots')

Deleted ==
    /\ mpc = "delete"
    /\ app_entry_remove(app_sel) \/ UNCHANGED <<slots, entry_count_all, entries>>
    /\ mpc' = "refresh" /\ app_sel' = NoApp
    /\ UNCHANGED <<sort, thread, layout, widgets, gen, hist>>

\* BA_REFRESH: after a deletion, and with the new entry after an upload.
Refresh ==
    /\ mpc = "refresh"
    /\ GenView("REFRESH", browser_set_top_offset(app_sel), app_sel, "input")
    /\ app_sel' = NoApp
    /\ UNCHANGED <<table, thread, clobbered>>

\* refresh_theme, from the browser or from the detail view of an entry.
NewTheme ==
    /\ mpc = "input"
    /\ GenView("REMOVE", top_offset, NoApp, "refresh")
    /\ app_sel' \in {NoApp} \union ({browser_sel} \ {Garbage})
    /\ UNCHANGED <<table, thread, clobbered>>

\* A faulty version of Add: the entry it replaces still counts.
AddKeepsCount(a, ok) ==
    LET old == Holding(slots, a)
        freed == IF old = {} THEN slots ELSE [slots EXCEPT ![First(old)] = NoApp]
        holes == TableSlots \ Used(freed)
        added == ok /\ entry_count_all < MaxEntries /\ holes # {}
    IN  /\ slots' = IF added THEN [freed EXCEPT ![First(holes)] = a] ELSE freed
        /\ entry_count_all' = entry_count_all + IF added THEN 1 ELSE 0
        /\ entries' = IF added \/ old # {} THEN app_entry_filter(slots') ELSE entries
        /\ IF added THEN mpc' = "refresh" /\ app_sel' = a /\ stale' = stale
           ELSE mpc' = "input" /\ app_sel' = NoApp /\ stale' = (stale \/ old # {})

\* app_entry_add: the old entry of the directory goes, the new one takes the
\* first free slot.  Without a new one nothing makes the page again.
Add(a, ok) ==
    LET old == Holding(slots, a)
        freed == IF old = {} THEN slots ELSE [slots EXCEPT ![First(old)] = NoApp]
        left == entry_count_all - IF old = {} THEN 0 ELSE 1
        holes == TableSlots \ Used(freed)
        added == ok /\ left < MaxEntries /\ holes # {}
    IN  /\ slots' = IF added THEN [freed EXCEPT ![First(holes)] = a] ELSE freed
        /\ entry_count_all' = left + IF added THEN 1 ELSE 0
        /\ entries' = IF added \/ old # {} THEN app_entry_filter(slots') ELSE entries
        /\ IF added THEN mpc' = "refresh" /\ app_sel' = a /\ stale' = stale
           ELSE mpc' = "input" /\ app_sel' = NoApp /\ stale' = (stale \/ old # {})

\* An upload has been extracted to the device.  Bound: not a second one
\* before the thread has filled the table.
Upload ==
    /\ mpc = "input" /\ phase # "empty"
    /\ phase \in {"loading", "filter"} => ~clobbered
    /\ \E a \in Apps, ok \in BOOLEAN : Add(a, ok)
    /\ clobbered' = (clobbered \/ phase \in {"loading", "filter"})
    /\ UNCHANGED <<sort, thread, layout, widgets, gen>>

\* The options dialog; nothing is sorted before the next filter.
SetSort ==
    /\ mpc = "input"
    /\ sort' \in {"NAME", "DATE"}
    /\ UNCHANGED <<slots, entry_count_all, entries, thread, layout, widgets, mpc, gen, app_sel, hist>>

Main ==
    \/ ActRemove \/ ActAdd \/ NextPage \/ PrevPage \/ SwitchMode \/ Switched \/ Point \/ Move
    \/ Delete \/ Deleted \/ NewTheme \/ Refresh \/ Upload \/ SetSort

BrowserNext == Thread \/ SlideEnd \/ Main

BrowserSpec == BrowserInit /\ [][BrowserNext]_browserVars

---------------------------------------------------------------------------
Pointer == Apps \union {NoApp, Garbage}

BrowserTypeOK ==
    /\ slots \in [TableSlots -> Apps \union {NoApp}]
    /\ entry_count_all \in 0..(MaxEntries + 1)
    /\ entries \in Seq(Apps) /\ sort \in {"NAME", "DATE"}
    /\ phase \in {"shown", "gone", "empty", "loading", "filter", "added"} /\ read \in 0..Len(Listing)
    /\ top_offset \in Nat
    /\ columns_current \in {1, Columns} /\ columns_new \in {1, Columns}
    /\ first_set \in BOOLEAN /\ focus \in -1..(WidgetCount - 1)
    /\ less \in BOOLEAN /\ more \in BOOLEAN
    /\ drawn \in [Positions -> Apps \union {NoApp}]
    /\ mpc \in {"input", "slide", "switch", "delete", "refresh"}
    /\ gen \in [remove : BOOLEAN, then : {"input", "free", "delete", "refresh"},
                focus : 0..(WidgetCount - 1), less : BOOLEAN, more : BOOLEAN]
    /\ app_sel \in Pointer /\ clobbered \in BOOLEAN /\ stale \in BOOLEAN

\* entries holds what entries_all holds and the filter lets through, and the
\* count of the table is right although it has holes: a load into "the slot
\* after the last" or an addition never overwrites or loses an entry.  Left
\* out: an upload that comes while the thread is filling the table
\* (clobbered), until the next load.
TableWhole ==
    /\ BrowserTypeOK
    /\ ~clobbered =>
          /\ entry_count_all = Cardinality(Used(slots))
          /\ \A i, j \in Used(slots) : slots[i] = slots[j] => i = j
          /\ phase \notin {"loading", "filter"} => IsInjective(entries) /\ Range(entries) \subseteq Range(slots)

\* The page on the screen is that of the table: no reload main has still to
\* read, no failed upload after which nothing makes it again, no refresh for
\* an entry the filter hides, where the offset is that of the page before.
Settled == mpc = "input" /\ phase # "added" /\ ~stale

\* What A opens, and "delete" deletes, is what the focused widget draws,
\* for both banks, on every page, in both layouts and after every reload,
\* deletion or upload.
SelIsDrawn ==
    (Settled /\ InBank(focus, Shown)) => browser_sel = drawn[focus - AeOffset]

\* The pages are a partition of the entries: each starts at a multiple of
\* its size, none is empty, and an arrow shows just when there is a page
\* behind it.
PagesPartition ==
    (Settled /\ columns_new = columns_current /\ entries # <<>>) =>
        /\ top_offset % Page = 0 /\ top_offset < Len(entries)
        /\ less = (top_offset > 0) /\ more = (Len(entries) > top_offset + Page)

\* "if ((entry_count < 1) || (v_browser->focus < AE_OFFSET)) return NULL"
\* (browser.c:317): past this test the focus stands for an entry.
SelInTable == Settled => browser_sel # Garbage
=============================================================================
