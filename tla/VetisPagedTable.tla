--------------------------- MODULE VetisPagedTable ---------------------------
(***************************************************************************)
(* The paged list of a page of the browser.  A list is fetched in pages,   *)
(* the next when the view nears the end of the rows; filters, the button   *)
(* and a quench reload it while pages are on their way; rows come and go   *)
(* on the server meanwhile.  The widget is found by its id: a table of a   *)
(* page that was left finds the widget of the page that came after it.     *)
(***************************************************************************)
EXTENDS Naturals, FiniteSets

CONSTANTS
  Filters,      \* what the list can be filtered by
  MaxRow,       \* rows are numbers: their place in the order of the list
  PageSize,     \* PAGE_SIZE
  ViewHeight,   \* rows in the view
  BeforeEnd,    \* ROWS_BEFORE_END
  MaxViews,     \* bound: times the page is built
  MaxReloads,   \* bound: reloads
  MaxLoads,     \* bound: pages on their way at a time
  MaxChanges,   \* bound: rows that come and go on the server
  MaxFaults     \* bound: pages that fail

ASSUME TableAssumption ==
  /\ {MaxRow, ViewHeight, BeforeEnd, MaxReloads, MaxLoads, MaxChanges, MaxFaults} \subseteq Nat
  /\ {PageSize, MaxViews} \subseteq Nat \ {0}
  /\ IsFiniteSet(Filters) /\ Filters # {}

VARIABLES
  list,      \* [Filters -> the rows on the server]
  view,      \* how often the page was built; the table of the last is current
  there,     \* is the page, and with it the widget, on the screen?
  table,     \* [Views -> the fields of VetisPagedTable]
  rows,      \* the rows of the widget, each with the filter it was fetched by
  top,       \* the first row in the view
  spinner,   \* does the widget show the progress icon?
  loads,     \* pages on their way
  foreign,   \* history: has the table of an earlier page touched these rows?
  steady,    \* history: rows on the server all the time since the reload
  vanished,  \* history: has a row of the list gone since?
  failed,    \* history: has a page failed since?
  reloads, changes, faults

widget == <<rows, top, spinner>>
history == <<foreign, steady, vanished, failed>>
bounds == <<reloads, changes, faults>>
vars == <<list, view, there, table, widget, loads, history, bounds>>

Row == 1 .. MaxRow
Views == 1 .. MaxViews
Fresh == [filters |-> CHOOSE f \in Filters : TRUE, generation |-> 0, skip |-> 0,
          hasMore |-> FALSE, loading |-> FALSE]

\* `id` tells pages on their way apart.
Table == [filters : Filters, generation : 0 .. MaxReloads, skip : Nat,
          hasMore : BOOLEAN, loading : BOOLEAN]
Load == [id : 1 .. MaxLoads, view : Views, generation : Nat, filters : Filters,
         skip : Nat, page : SUBSET Row, more : BOOLEAN, served : BOOLEAN]

TypeOK ==
  /\ list \in [Filters -> SUBSET Row]
  /\ view \in 1 .. MaxViews
  /\ there \in BOOLEAN
  /\ table \in [Views -> Table]
  /\ rows \subseteq Filters \X Row
  /\ top \in 0 .. Cardinality(rows)
  /\ spinner \in BOOLEAN
  /\ loads \subseteq Load
  /\ foreign \in BOOLEAN /\ vanished \in BOOLEAN /\ failed \in BOOLEAN
  /\ steady \subseteq Row

\* The lists at first are a bound too: none, or all rows but the first.
Init ==
  /\ list \in [Filters -> {Row \ {1}, {}}]
  /\ view = 1 /\ there = TRUE
  /\ table = [v \in Views |-> Fresh]
  /\ rows = {} /\ top = 0 /\ spinner = FALSE
  /\ loads = {}
  /\ foreign = FALSE /\ steady = {} /\ vanished = FALSE /\ failed = FALSE
  /\ reloads = 0 /\ changes = 0 /\ faults = 0

Current(l) == l.generation = table[l.view].generation

-----------------------------------------------------------------------------
(* The server                                                              *)

Place(n, all) == Cardinality({m \in all : m <= n})

\* VetisPaging: one row more than the page is read.
Served(l) ==
  [l EXCEPT !.served = TRUE,
            !.page = {n \in list[l.filters] : Place(n, list[l.filters]) \in l.skip + 1 .. l.skip + PageSize},
            !.more = Cardinality(list[l.filters]) > l.skip + PageSize]

Serve(l) ==
  /\ ~l.served
  /\ loads' = (loads \ {l}) \cup {Served(l)}
  /\ UNCHANGED <<list, view, there, table, widget, history, bounds>>

Change(f, kept) ==
  /\ changes < MaxChanges /\ changes' = changes + 1
  /\ list' = [list EXCEPT ![f] = kept]
  /\ UNCHANGED <<view, there, table, widget, loads, foreign, failed, reloads, faults>>

Appear(f, n) ==
  /\ n \notin list[f]
  /\ Change(f, list[f] \cup {n})
  /\ UNCHANGED <<steady, vanished>>

Vanish(f, n) ==
  /\ n \in list[f]
  /\ Change(f, list[f] \ {n})
  /\ LET mine == f = table[view].filters
     IN  /\ steady' = IF mine THEN steady \ {n} ELSE steady
         /\ vanished' = (vanished \/ mine)

-----------------------------------------------------------------------------
(* The table                                                               *)

\* shouldLoadMore, for `count` rows.
Needed(t, count, first) ==
  t.hasMore /\ ~t.loading /\ count <= first + ViewHeight + BeforeEnd

FreeIds(others) == 1 .. MaxLoads \ {l.id : l \in others}

\* Mutant: pages are counted from one, their offset as if from zero.
RequestBefore(v, t, others) ==
  [id |-> CHOOSE i \in FreeIds(others) : TRUE, view |-> v, generation |-> t.generation,
   filters |-> t.filters, skip |-> t.skip - PageSize, page |-> {}, more |-> FALSE, served |-> FALSE]

\* _loadNext up to its await.
Request(v, t, others) ==
  [id |-> CHOOSE i \in FreeIds(others) : TRUE, view |-> v, generation |-> t.generation,
   filters |-> t.filters, skip |-> t.skip, page |-> {}, more |-> FALSE, served |-> FALSE]

Restarted(v, f) ==
  [table[v] EXCEPT !.filters = f, !.generation = @ + 1, !.skip = 0,
                   !.hasMore = FALSE, !.loading = TRUE]

\* A filter, the button, the first load, or a quench that ended, perhaps one
\* that was started from an earlier page.
Reload(v, f) ==
  /\ there /\ v <= view
  /\ reloads < MaxReloads /\ reloads' = reloads + 1
  /\ FreeIds(loads) # {}
  /\ table' = [table EXCEPT ![v] = Restarted(v, f)]
  /\ rows' = {} /\ top' = 0 /\ spinner' = TRUE
  /\ loads' = loads \cup {Request(v, Restarted(v, f), loads)}
  /\ foreign' = (v # view)
  /\ steady' = list[f] /\ vanished' = FALSE /\ failed' = FALSE
  /\ UNCHANGED <<list, view, there, changes, faults>>

\* Mutant: the generation is looked at when the page is shown already.
OutdatedShown(l) ==
  /\ l.served /\ ~Current(l)
  /\ rows' = IF there THEN rows \cup {<<l.filters, n>> : n \in l.page} ELSE rows
  /\ loads' = loads \ {l}
  /\ UNCHANGED <<list, view, there, table, top, spinner, history, bounds>>

\* A page of an earlier generation is dropped.
Outdated(l) ==
  /\ l.served /\ ~Current(l)
  /\ loads' = loads \ {l}
  /\ UNCHANGED <<list, view, there, table, widget, history, bounds>>

\* Mutant: the offset moves one row too far.
AfterPageTwice(l) ==
  [table[l.view] EXCEPT !.skip = @ + Cardinality(l.page) + 1, !.hasMore = l.more, !.loading = FALSE]

AfterPage(l) ==
  [table[l.view] EXCEPT !.skip = @ + Cardinality(l.page), !.hasMore = l.more, !.loading = FALSE]

\* Mutant: the next page waits for the user to scroll.
ArriveOnly(l) ==
  /\ l.served /\ Current(l)
  /\ rows' = IF there THEN rows \cup {<<l.filters, n>> : n \in l.page} ELSE rows
  /\ foreign' = (foreign \/ (there /\ l.view # view))
  /\ loads' = loads \ {l}
  /\ table' = [table EXCEPT ![l.view] = AfterPage(l)]
  /\ spinner' = FALSE
  /\ UNCHANGED <<list, view, there, top, steady, vanished, failed, bounds>>

\* The page is shown in the widget of that id, if there is one, and the next
\* one is fetched at once when it does not fill the view.
Arrive(l) ==
  /\ l.served /\ Current(l)
  /\ rows' = IF there THEN rows \cup {<<l.filters, n>> : n \in l.page} ELSE rows
  /\ foreign' = (foreign \/ (there /\ l.view # view))
  /\ LET t == AfterPage(l)
         others == loads \ {l}
     IN  IF there /\ Needed(t, Cardinality(rows'), top)
           THEN /\ table' = [table EXCEPT ![l.view] = [t EXCEPT !.loading = TRUE]]
                /\ loads' = others \cup {Request(l.view, t, others)}
           ELSE /\ table' = [table EXCEPT ![l.view] = t]
                /\ loads' = others
  /\ spinner' = FALSE
  /\ UNCHANGED <<list, view, there, top, steady, vanished, failed, bounds>>

\* Mutant: an error leaves the icon turning.
FailSpinning(l) ==
  /\ faults < MaxFaults /\ faults' = faults + 1
  /\ loads' = loads \ {l}
  /\ table' = IF Current(l) THEN [table EXCEPT ![l.view].hasMore = FALSE, ![l.view].loading = FALSE]
                            ELSE table
  /\ failed' = (failed \/ Current(l))
  /\ UNCHANGED <<list, view, there, rows, top, spinner, foreign, steady, vanished, reloads, changes>>

\* A page fails: the list ends there until it is loaded anew.
Fail(l) ==
  /\ faults < MaxFaults /\ faults' = faults + 1
  /\ loads' = loads \ {l}
  /\ table' = IF Current(l) THEN [table EXCEPT ![l.view].hasMore = FALSE, ![l.view].loading = FALSE]
                            ELSE table
  /\ spinner' = (spinner /\ ~Current(l))
  /\ failed' = (failed \/ Current(l))
  /\ UNCHANGED <<list, view, there, rows, top, foreign, steady, vanished, reloads, changes>>

\* Mutant: a scroll does not look whether a page is on its way.
ScrollAgain(first) ==
  /\ there /\ first + ViewHeight <= Cardinality(rows)
  /\ top' = first
  /\ IF Needed([table[view] EXCEPT !.loading = FALSE], Cardinality(rows), first)
       THEN /\ FreeIds(loads) # {}
            /\ table' = [table EXCEPT ![view].loading = TRUE]
            /\ loads' = loads \cup {Request(view, table[view], loads)}
       ELSE UNCHANGED <<table, loads>>
  /\ UNCHANGED <<list, view, there, rows, spinner, history, bounds>>

Scroll(first) ==
  /\ there /\ first + ViewHeight <= Cardinality(rows)
  /\ top' = first
  /\ IF Needed(table[view], Cardinality(rows), first)
       THEN /\ FreeIds(loads) # {}
            /\ table' = [table EXCEPT ![view].loading = TRUE]
            /\ loads' = loads \cup {Request(view, table[view], loads)}
       ELSE UNCHANGED <<table, loads>>
  /\ UNCHANGED <<list, view, there, rows, spinner, history, bounds>>

\* Another page of the menu; its way back builds a new table.
LeavePage ==
  /\ there
  /\ there' = FALSE
  /\ rows' = {} /\ top' = 0 /\ spinner' = FALSE
  /\ UNCHANGED <<list, view, table, loads, history, bounds>>

ReturnToPage ==
  /\ ~there /\ view < MaxViews
  /\ there' = TRUE
  /\ view' = view + 1
  /\ foreign' = FALSE /\ steady' = {} /\ vanished' = FALSE /\ failed' = FALSE
  /\ UNCHANGED <<list, table, widget, loads, bounds>>

-----------------------------------------------------------------------------
Next ==
  \/ \E l \in loads : Serve(l) \/ Outdated(l) \/ Arrive(l) \/ Fail(l)
  \/ \E f \in Filters, n \in Row : Appear(f, n) \/ Vanish(f, n)
  \/ \E v \in Views, f \in Filters : Reload(v, f)
  \/ \E first \in 0 .. MaxRow : Scroll(first)
  \/ LeavePage \/ ReturnToPage

Spec == Init /\ [][Next]_vars

\* Requests are served, and their answers come.
FairSpec == Spec /\ WF_vars(\E l \in loads : Serve(l) \/ Outdated(l) \/ Arrive(l))

-----------------------------------------------------------------------------
Now == table[view]
Numbers == {n \in Row : <<Now.filters, n>> \in rows}
All == ~Now.hasMore /\ ~Now.loading /\ ~failed

\* The rows are those of the filters that are set, whichever pages are late.
RowsBelong == ~foreign => \A r \in rows : r[1] = Now.filters

\* As long as no row leaves the list, none of it is skipped between those
\* shown, nor missing once the list has ended.
NothingSkipped ==
  there /\ ~foreign /\ ~vanished /\ Now.generation > 0 =>
    \A n \in steady : All \/ (\E m \in Numbers : n < m) => n \in Numbers

\* One page of a generation is on its way while the table says so, and none
\* otherwise.
OneLoad ==
  \A v \in Views :
    Cardinality({l \in loads : l.view = v /\ Current(l)}) = IF table[v].loading THEN 1 ELSE 0

\* The view never stands at the end of the rows with more to come and nothing
\* on its way.
EndIsFetched == there /\ ~foreign => ~Needed(Now, Cardinality(rows), top)

\* The progress icon turns only while a page is on its way that will put it
\* out: an answer that comes too late leaves it to the page that replaced it.
SpinnerIsOwed == spinner => \E l \in loads : Current(l)

\* The progress icon does not turn for ever.
SpinnerEnds == spinner ~> ~spinner
=============================================================================
