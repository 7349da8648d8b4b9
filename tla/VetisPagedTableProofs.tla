------------------------ MODULE VetisPagedTableProofs ------------------------
(***************************************************************************)
(* The safety properties of VetisPagedTable for any filters, page size,    *)
(* height of the view and number of reloads and pages on their way.  The   *)
(* argument: a page of the current generation was asked for with the       *)
(* current filters, and there is one exactly while the table says that it  *)
(* loads; what it brings continues the rows, as long as none has vanished. *)
(***************************************************************************)
EXTENDS VetisPagedTable, FiniteSetTheorems, TLAPS

USE TableAssumption

\* A page on its way belongs to a table that was built, and to a generation
\* of it; to the current one only with the filters of that.
LoadsFit ==
  \A l \in loads :
    /\ l.view <= view
    /\ l.generation <= table[l.view].generation
    /\ Current(l) => l.filters = table[l.view].filters

IdsDiffer == \A l, m \in loads : l.id = m.id => l = m

TablesFit ==
  /\ reloads \in 0 .. MaxReloads
  /\ \A v \in Views : table[v].generation <= reloads /\ (v > view => table[v] = Fresh)
  /\ there \/ rows = {}

CurrentLoads(v) == {l \in loads : l.view = v /\ Current(l)}

LoadingTruly ==
  \A v \in Views : IF table[v].loading THEN \E l : CurrentLoads(v) = {l} ELSE CurrentLoads(v) = {}

Fits == LoadsFit /\ IdsDiffer /\ TablesFit /\ LoadingTruly

IInv == TypeOK /\ Fits /\ RowsBelong /\ EndIsFetched

-----------------------------------------------------------------------------
(* Facts about pages and rows                                              *)

LEMMA FreshTyped == Fresh \in Table /\ ~Fresh.hasMore /\ ~Fresh.loading /\ Fresh.generation = 0
<1>1. (CHOOSE f \in Filters : TRUE) \in Filters
  OBVIOUS
<1> QED
  BY <1>1 DEF Fresh, Table

LEMMA RowsFinite ==
  /\ IsFiniteSet(Row)
  /\ \A shown \in SUBSET (Filters \X Row) : IsFiniteSet(shown)
<1>1. IsFiniteSet(Row)
  BY FS_Interval DEF Row
<1>2. IsFiniteSet(Filters \X Row)
  BY <1>1, FS_Product
<1> QED
  BY <1>1, <1>2, FS_Subset

LEMMA RequestFits ==
  ASSUME NEW v \in Views, NEW t \in Table, NEW others \in SUBSET Load, FreeIds(others) # {}
  PROVE  /\ Request(v, t, others) \in Load
         /\ Request(v, t, others).view = v
         /\ Request(v, t, others).generation = t.generation
         /\ Request(v, t, others).filters = t.filters
         /\ \A l \in others : l.id # Request(v, t, others).id
<1>1. PICK i \in FreeIds(others) : i = CHOOSE j \in FreeIds(others) : TRUE
  OBVIOUS
<1>2. i \in 1 .. MaxLoads /\ \A l \in others : l.id # i
  BY <1>1 DEF FreeIds
<1> QED
  BY <1>1, <1>2 DEF Request, Load, Table

\* A table asks for its next page: nothing of its generation was on its way.
LEMMA Asks ==
  ASSUME TypeOK, Fits, NEW v \in 1 .. view, v \in Views, NEW t \in Table,
         NEW asked \in Table, asked.generation = t.generation, asked.filters = t.filters,
         NEW others \in SUBSET loads, FreeIds(others) # {},
         \A l \in loads \ others : l.view = v,
         \A l \in others : l.view = v => l.generation < t.generation,
         t.generation >= table[v].generation, t.generation <= reloads', t.loading,
         table' = [table EXCEPT ![v] = t],
         loads' = others \cup {Request(v, asked, others)},
         reloads' \in 0 .. MaxReloads, reloads' >= reloads, view' = view,
         there' \/ rows' = {}
  PROVE  loads' \subseteq Load /\ table' \in [Views -> Table] /\ Fits'
<1> DEFINE new == Request(v, asked, others)
<1>1. /\ new \in Load /\ new.view = v /\ new.generation = t.generation /\ new.filters = t.filters
      /\ \A l \in others : l.id # new.id
  BY RequestFits DEF TypeOK
<1>2. loads' \subseteq Load /\ table' \in [Views -> Table]
  BY <1>1 DEF TypeOK
<1> HIDE DEF new
<1>3. loads' = others \cup {new}
  BY DEF new
<1>4. \A w \in Views : w # v => table'[w] = table[w]
  BY DEF TypeOK
<1>5. table'[v] = t /\ table[v] \in Table
  BY DEF TypeOK
<1>6. \A l \in loads : l.view \in Views /\ l.generation \in Nat
  BY DEF TypeOK, Load
<1>7. LoadsFit'
  <2>1. \A l \in loads' : l = new \/ l \in others
    BY <1>3
  <2>2. new.view <= view' /\ new.generation <= table'[v].generation
    BY <1>1, <1>5 DEF Table, TypeOK
  <2>3. ASSUME NEW l \in others
        PROVE  /\ l.view <= view' /\ l.generation <= table'[l.view].generation
               /\ Current(l)' => l.filters = table'[l.view].filters
    <3>1. l.view \in Views /\ l.generation \in Nat /\ t.generation \in Nat
      BY <1>6 DEF Table
    <3>2. CASE l.view = v
      BY <1>5, <3>1, <3>2 DEF Current, Fits, LoadsFit
    <3>3. CASE l.view # v
      BY <1>4, <3>1, <3>3 DEF Current, Fits, LoadsFit
    <3> QED
      BY <3>2, <3>3
  <2> QED
    BY <1>1, <1>5, <2>1, <2>2, <2>3 DEF LoadsFit
<1>8. IdsDiffer'
  BY <1>1, <1>3 DEF Fits, IdsDiffer
<1>9. TablesFit'
  <2>1. ASSUME NEW w \in Views
        PROVE  table'[w].generation <= reloads' /\ (w > view' => table'[w] = Fresh)
    <3>1. table[w].generation \in Nat /\ t.generation \in Nat
      BY DEF TypeOK, Table
    <3>2. ~(v > view)
      BY DEF TypeOK
    <3>3. reloads \in Nat /\ reloads' \in Nat
      BY DEF Fits, TablesFit
    <3> QED
      BY <1>4, <1>5, <3>1, <3>2, <3>3 DEF Fits, TablesFit
  <2> QED
    BY <2>1 DEF TablesFit
<1>10. LoadingTruly'
  <2>1. CurrentLoads(v)' = {new}
    BY <1>1, <1>3, <1>5, <1>6 DEF CurrentLoads, Current, Table
  <2>2. \A w \in Views : w # v => CurrentLoads(w)' = CurrentLoads(w)
    BY <1>1, <1>3, <1>4, <1>6 DEF CurrentLoads, Current
  <2> HIDE DEF CurrentLoads
  <2> QED
    BY <1>4, <1>5, <2>1, <2>2 DEF Fits, LoadingTruly
<1> QED
  BY <1>2, <1>7, <1>8, <1>9, <1>10 DEF Fits

\* A page of the current generation is the only one.
LEMMA OnlyCurrent ==
  ASSUME TypeOK, Fits, NEW l \in loads, Current(l)
  PROVE  table[l.view].loading /\ CurrentLoads(l.view) = {l}
<1>1. l \in CurrentLoads(l.view) /\ l.view \in Views
  BY DEF CurrentLoads, TypeOK, Load
<1> QED
  BY <1>1 DEF Fits, LoadingTruly

\* A page is gone, and its table, if it waited for it, knows.
LEMMA Drops ==
  ASSUME TypeOK, Fits, NEW l \in loads, NEW t \in Table,
         t.generation = table[l.view].generation, t.filters = table[l.view].filters,
         IF Current(l) THEN ~t.loading ELSE t = table[l.view],
         table' = [table EXCEPT ![l.view] = t],
         loads' = loads \ {l}, UNCHANGED <<view, reloads>>, there' \/ rows' = {}
  PROVE  loads' \subseteq Load /\ table' \in [Views -> Table] /\ Fits'
<1>1. l.view \in Views /\ \A m \in loads : m.view \in Views /\ m.generation \in Nat
  BY DEF TypeOK, Load
<1>2. loads' \subseteq Load /\ table' \in [Views -> Table]
  BY <1>1 DEF TypeOK
<1>3. \A v \in Views : table'[v] = IF v = l.view THEN t ELSE table[v]
  BY <1>1 DEF TypeOK
<1>4. \A v \in Views : table'[v].generation = table[v].generation /\ table'[v].filters = table[v].filters
  BY <1>3
<1>5. LoadsFit' /\ IdsDiffer'
  BY <1>1, <1>4 DEF Fits, LoadsFit, IdsDiffer, Current
<1>6. TablesFit'
  BY <1>1, <1>3, <1>4 DEF Fits, TablesFit, LoadsFit, TypeOK, Views
<1>7. LoadingTruly'
  <2>1. \A v \in Views : CurrentLoads(v)' = CurrentLoads(v) \ {l}
    BY <1>1, <1>4 DEF CurrentLoads, Current
  <2>2. \A v \in Views : v # l.view \/ ~Current(l) => l \notin CurrentLoads(v)
    BY DEF CurrentLoads
  <2>3. Current(l) => CurrentLoads(l.view) = {l}
    BY OnlyCurrent
  <2> HIDE DEF CurrentLoads
  <2>4. ASSUME NEW v \in Views
        PROVE  IF table'[v].loading THEN \E m : CurrentLoads(v)' = {m} ELSE CurrentLoads(v)' = {}
    <3>1. CASE v # l.view \/ ~Current(l)
      <4>1. CurrentLoads(v)' = CurrentLoads(v) /\ table'[v] = table[v]
        BY <1>3, <2>1, <2>2, <3>1
      <4> QED
        BY <4>1 DEF Fits, LoadingTruly
    <3>2. CASE v = l.view /\ Current(l)
      BY <1>3, <2>1, <2>3, <3>2
    <3> QED
      BY <3>1, <3>2
  <2> QED
    BY <2>4 DEF LoadingTruly
<1> QED
  BY <1>2, <1>5, <1>6, <1>7 DEF Fits
-----------------------------------------------------------------------------
(* The steps of a table                                                    *)

\* Rows are only added to those shown.
LEMMA MoreRows ==
  ASSUME TypeOK, NEW shown \in SUBSET (Filters \X Row), rows \subseteq shown
  PROVE  top \in 0 .. Cardinality(shown)
<1>1. IsFiniteSet(shown) /\ Cardinality(rows) <= Cardinality(shown)
  BY RowsFinite, FS_Subset
<1>2. Cardinality(shown) \in Nat /\ Cardinality(rows) \in Nat
  BY RowsFinite, FS_CardinalityType DEF TypeOK
<1> QED
  BY <1>1, <1>2 DEF TypeOK

LEMMA AfterPageTyped ==
  ASSUME TypeOK, NEW l \in loads
  PROVE  /\ AfterPage(l) \in Table /\ ~AfterPage(l).loading
         /\ AfterPage(l).generation = table[l.view].generation
         /\ AfterPage(l).filters = table[l.view].filters
<1>1. l.view \in Views /\ l.page \in SUBSET Row /\ l.more \in BOOLEAN
  BY DEF TypeOK, Load
<1>2. Cardinality(l.page) \in Nat
  BY <1>1, RowsFinite, FS_Subset, FS_CardinalityType
<1>3. table[l.view] \in Table
  BY <1>1 DEF TypeOK
<1> DEFINE skip == table[l.view].skip + Cardinality(l.page)
<1>4. skip \in Nat
  BY <1>2, <1>3 DEF Table
<1>5. AfterPage(l) = [table[l.view] EXCEPT !.skip = skip, !.hasMore = l.more, !.loading = FALSE]
  BY DEF AfterPage
<1> HIDE DEF skip
<1> QED
  BY <1>1, <1>3, <1>4, <1>5 DEF Table

LEMMA ArriveStep ==
  ASSUME IInv, NEW l \in loads, Arrive(l)
  PROVE  IInv'
<1> DEFINE t == AfterPage(l)
           others == loads \ {l}
           asks == there /\ Needed(t, Cardinality(rows'), top)
           v == l.view
<1>1. TypeOK /\ Fits /\ Current(l) /\ l \in Load /\ v \in Views /\ v \in 1 .. view
  BY DEF IInv, Arrive, TypeOK, Load, Fits, LoadsFit, Views
<1>2. t \in Table /\ ~t.loading /\ t.generation = table[v].generation /\ t.filters = table[v].filters
  BY <1>1, AfterPageTyped
<1>3. there \/ rows' = {}
  BY <1>1 DEF Arrive, Fits, TablesFit
<1>4. UNCHANGED <<list, view, there, top, steady, vanished, failed, reloads>>
  BY DEF Arrive, bounds
<1>5. rows' \subseteq Filters \X Row /\ rows \subseteq rows'
  BY <1>1 DEF Arrive, TypeOK, Load
<1>6. /\ IF asks
           THEN /\ table' = [table EXCEPT ![v] = [t EXCEPT !.loading = TRUE]]
                /\ loads' = others \cup {Request(v, t, others)}
           ELSE /\ table' = [table EXCEPT ![v] = t]
                /\ loads' = others
      /\ foreign' = (foreign \/ (there /\ v # view))
      /\ spinner' = FALSE
      /\ rows' = IF there THEN rows \cup {<<l.filters, n>> : n \in l.page} ELSE rows
  BY DEF Arrive
<1>7. /\ l.filters = table[v].filters
      /\ table[v].loading /\ CurrentLoads(v) = {l}
  BY <1>1, OnlyCurrent DEF Fits, LoadsFit
<1>8. FreeIds(others) # {}
  BY <1>1 DEF Fits, IdsDiffer, FreeIds, Load
<1>9. \A m \in others : m.view = v => m.generation < t.generation
  <2>1. ASSUME NEW m \in others, m.view = v PROVE ~Current(m)
    BY <1>7, <2>1 DEF CurrentLoads
  <2> QED
    BY <1>1, <1>2, <2>1 DEF Current, Fits, LoadsFit, TypeOK, Load, Table
<1> HIDE DEF t, others
<1>10. loads' \subseteq Load /\ table' \in [Views -> Table] /\ Fits'
  <2>1. CASE asks
    <3> DEFINE u == [t EXCEPT !.loading = TRUE]
    <3>1. u \in Table /\ u.loading /\ u.generation = t.generation /\ u.filters = t.filters
      BY <1>2 DEF Table
    <3>2. others \in SUBSET loads /\ \A m \in loads \ others : m.view = v
      BY DEF others
    <3>3. /\ table' = [table EXCEPT ![v] = u]
          /\ loads' = others \cup {Request(v, t, others)}
      BY <1>6, <2>1
    <3>4. t.generation >= table[v].generation /\ t.generation <= reloads'
          /\ reloads' \in 0 .. MaxReloads /\ reloads' >= reloads
      BY <1>1, <1>2, <1>4 DEF Fits, TablesFit, Table
    <3> HIDE DEF u, v
    <3> QED
      BY <1>1, <1>2, <1>3, <1>4, <1>8, <1>9, <3>1, <3>2, <3>3, <3>4, Asks
  <2>2. CASE ~asks
    BY <1>1, <1>2, <1>3, <1>4, <1>6, <2>2, Drops DEF others
  <2> QED
    BY <2>1, <2>2
<1>11. TypeOK'
  BY <1>1, <1>4, <1>5, <1>6, <1>10, MoreRows DEF TypeOK
<1>12. \A w \in Views : /\ w # v => table'[w] = table[w]
                        /\ table'[w].filters = table[w].filters
  BY <1>1, <1>2, <1>6 DEF TypeOK, Table
<1>13. view \in Views
  BY <1>1 DEF TypeOK, Views
<1>14. RowsBelong'
  <2>1. SUFFICES ASSUME ~foreign', NEW r \in rows'
                 PROVE  r[1] = table'[view'].filters
    BY DEF RowsBelong, Now
  <2>2. ~foreign /\ table'[view'].filters = table[view].filters
    BY <1>4, <1>6, <1>12, <1>13, <2>1
  <2>3. CASE r \in rows
    BY <2>2, <2>3 DEF IInv, RowsBelong, Now
  <2>4. CASE r \notin rows
    <3>1. v = view /\ r[1] = l.filters
      <4>1. PICK n \in l.page : there /\ r = <<l.filters, n>>
        BY <1>6, <2>1, <2>4
      <4>2. v = view
        BY <1>6, <2>1, <4>1
      <4> QED
        BY <4>1, <4>2
    <3> QED
      BY <1>7, <2>2, <3>1
  <2> QED
    BY <2>3, <2>4
<1>15. EndIsFetched'
  <2>1. CASE there /\ v = view
    <3>1. CASE asks
      BY <1>1, <1>2, <1>4, <1>6, <1>13, <2>1, <3>1 DEF EndIsFetched, Now, Needed, TypeOK, Table
    <3>2. CASE ~asks
      BY <1>1, <1>4, <1>6, <2>1, <3>2 DEF EndIsFetched, Now, TypeOK
    <3> QED
      BY <3>1, <3>2
  <2>2. CASE ~there \/ v # view
    BY <1>4, <1>6, <2>2 DEF EndIsFetched
  <2> QED
    BY <2>1, <2>2
<1> QED
  BY <1>10, <1>11, <1>14, <1>15 DEF IInv
LEMMA ReloadStep ==
  ASSUME IInv, NEW w \in Views, NEW f \in Filters, Reload(w, f)
  PROVE  IInv'
<1> DEFINE t == Restarted(w, f)
<1>1. TypeOK /\ Fits /\ w \in 1 .. view /\ view \in Views
  BY DEF IInv, Reload, TypeOK, Views
<1>2. /\ there /\ reloads < MaxReloads /\ reloads' = reloads + 1 /\ FreeIds(loads) # {}
      /\ table' = [table EXCEPT ![w] = t] /\ loads' = loads \cup {Request(w, t, loads)}
      /\ rows' = {} /\ top' = 0 /\ spinner' = TRUE /\ foreign' = (w # view)
      /\ steady' = list[f] /\ vanished' = FALSE /\ failed' = FALSE
      /\ UNCHANGED <<list, view, there>>
  BY DEF Reload
<1>3. /\ table[w] \in Table /\ table[w].generation <= reloads /\ reloads \in Nat
      /\ reloads' \in 0 .. MaxReloads
  BY <1>1, <1>2 DEF TypeOK, Fits, TablesFit
<1>4. /\ t \in Table /\ t.generation = table[w].generation + 1 /\ t.filters = f
      /\ ~t.hasMore /\ t.loading
  <2> DEFINE next == table[w].generation + 1
  <2>1. next \in 0 .. MaxReloads
    BY <1>2, <1>3 DEF Table
  <2>2. t = [table[w] EXCEPT !.filters = f, !.generation = next, !.skip = 0,
                             !.hasMore = FALSE, !.loading = TRUE]
    BY DEF Restarted
  <2> HIDE DEF t, next
  <2>3. /\ t \in Table /\ t.generation = next /\ t.filters = f
        /\ ~t.hasMore /\ t.loading
    BY <1>3, <2>1, <2>2 DEF Table
  <2> QED
    BY <2>3 DEF next
<1>5. \A l \in loads : l.view = w => l.generation < t.generation
  BY <1>1, <1>3, <1>4 DEF Fits, LoadsFit, TypeOK, Load, Table
<1>6. t.generation >= table[w].generation /\ t.generation <= reloads' /\ reloads' >= reloads
  BY <1>2, <1>3, <1>4 DEF Table
<1> HIDE DEF t
<1>7. loads' \subseteq Load /\ table' \in [Views -> Table] /\ Fits'
  BY <1>1, <1>2, <1>3, <1>4, <1>5, <1>6, Asks
<1>8. TypeOK'
  <2>1. rows' \subseteq Filters \X Row /\ top' \in 0 .. Cardinality(rows')
    BY <1>2, FS_EmptySet
  <2> QED
    BY <1>1, <1>2, <1>7, <2>1 DEF TypeOK
<1>9. RowsBelong'
  BY <1>2 DEF RowsBelong
<1>10. EndIsFetched'
  BY <1>1, <1>2, <1>4 DEF EndIsFetched, Now, Needed, TypeOK
<1> QED
  BY <1>7, <1>8, <1>9, <1>10 DEF IInv

LEMMA ScrollStep ==
  ASSUME IInv, NEW first \in 0 .. MaxRow, Scroll(first)
  PROVE  IInv'
<1>1. TypeOK /\ Fits /\ view \in Views /\ view \in 1 .. view /\ table[view] \in Table
  BY DEF IInv, TypeOK, Views
<1>2. /\ there /\ first + ViewHeight <= Cardinality(rows) /\ top' = first
      /\ UNCHANGED <<list, view, there, rows, spinner, foreign, steady, vanished, failed, reloads>>
  BY DEF Scroll, history, bounds
<1>3. top' \in 0 .. Cardinality(rows')
  <2>1. Cardinality(rows) \in Nat
    BY <1>1, RowsFinite, FS_CardinalityType DEF TypeOK
  <2> QED
    BY <1>2, <2>1
<1>4. CASE Needed(table[view], Cardinality(rows), first)
  <2> DEFINE t == [table[view] EXCEPT !.loading = TRUE]
  <2>1. /\ FreeIds(loads) # {} /\ table' = [table EXCEPT ![view].loading = TRUE]
        /\ loads' = loads \cup {Request(view, table[view], loads)}
    BY <1>4 DEF Scroll
  <2>2. /\ t \in Table /\ t.loading /\ t.filters = table[view].filters
        /\ t.generation = table[view].generation /\ table' = [table EXCEPT ![view] = t]
    BY <1>1, <2>1 DEF Table, TypeOK
  <2>3. ~table[view].loading
    BY <1>4 DEF Needed
  <2>4. \A l \in loads : l.view = view => l.generation < t.generation
    <3>1. ASSUME NEW l \in loads, l.view = view PROVE ~Current(l)
      BY <1>1, <2>3, <3>1, OnlyCurrent
    <3> QED
      BY <1>1, <2>2, <3>1 DEF Current, Fits, LoadsFit, TypeOK, Load, Table
  <2>5. t.generation <= reloads' /\ reloads' \in 0 .. MaxReloads /\ reloads' >= reloads
    BY <1>1, <1>2, <2>2 DEF Fits, TablesFit
  <2>6. t.generation >= table[view].generation
    BY <1>1, <2>2 DEF Table
  <2> HIDE DEF t
  <2>7. loads' \subseteq Load /\ table' \in [Views -> Table] /\ Fits'
    BY <1>1, <1>2, <2>1, <2>2, <2>4, <2>5, <2>6, Asks
  <2>8. TypeOK'
    BY <1>1, <1>2, <1>3, <2>7 DEF TypeOK
  <2>9. table'[view] = t
    BY <1>1, <2>2 DEF TypeOK
  <2>10. RowsBelong' /\ EndIsFetched'
    BY <1>2, <2>2, <2>9 DEF IInv, RowsBelong, EndIsFetched, Now, Needed
  <2> QED
    BY <2>7, <2>8, <2>10 DEF IInv
<1>5. CASE ~Needed(table[view], Cardinality(rows), first)
  <2>1. UNCHANGED <<table, loads>>
    BY <1>5 DEF Scroll
  <2>2. TypeOK' /\ Fits'
    BY <1>1, <1>2, <1>3, <2>1
    DEF TypeOK, Fits, LoadsFit, IdsDiffer, TablesFit, LoadingTruly, CurrentLoads, Current
  <2>3. RowsBelong' /\ EndIsFetched'
    BY <1>2, <1>5, <2>1 DEF IInv, RowsBelong, EndIsFetched, Now
  <2> QED
    BY <2>2, <2>3 DEF IInv
<1> QED
  BY <1>4, <1>5

\* A page is dropped, whether it came too late or failed.
LEMMA FailStep ==
  ASSUME IInv, NEW l \in loads, Fail(l) \/ Outdated(l)
  PROVE  IInv'
<1> DEFINE t == IF Current(l) THEN [table[l.view] EXCEPT !.hasMore = FALSE, !.loading = FALSE]
                ELSE table[l.view]
<1>1. TypeOK /\ Fits /\ view \in Views /\ l.view \in Views /\ table[l.view] \in Table
  BY DEF IInv, TypeOK, Views, Load
<1>2. /\ loads' = loads \ {l} /\ table' = [table EXCEPT ![l.view] = t]
      /\ UNCHANGED <<list, view, there, rows, top, foreign, steady, vanished, reloads>>
      /\ spinner' \in BOOLEAN /\ failed' \in BOOLEAN
  BY <1>1 DEF Fail, Outdated, TypeOK, widget, history, bounds, Current
<1>3. /\ t \in Table /\ t.generation = table[l.view].generation
      /\ t.filters = table[l.view].filters
      /\ IF Current(l) THEN ~t.loading /\ ~t.hasMore ELSE t = table[l.view]
  BY <1>1 DEF Table
<1> HIDE DEF t
<1>4. there' \/ rows' = {}
  BY <1>1, <1>2 DEF Fits, TablesFit
<1>5. loads' \subseteq Load /\ table' \in [Views -> Table] /\ Fits'
  BY <1>1, <1>2, <1>3, <1>4, Drops
<1>6. TypeOK'
  BY <1>1, <1>2, <1>5 DEF TypeOK
<1>7. table'[view].filters = table[view].filters
      /\ (table'[view] = table[view] \/ ~table'[view].hasMore)
  BY <1>1, <1>2, <1>3 DEF TypeOK
<1>8. RowsBelong' /\ EndIsFetched'
  BY <1>2, <1>7 DEF IInv, RowsBelong, EndIsFetched, Now, Needed
<1> QED
  BY <1>5, <1>6, <1>8 DEF IInv

LEMMA ServeStep ==
  ASSUME IInv, NEW l \in loads, Serve(l)
  PROVE  IInv'
<1> DEFINE s == Served(l)
<1>1. TypeOK /\ Fits /\ l \in Load
  BY DEF IInv, TypeOK
<1>2. loads' = (loads \ {l}) \cup {s}
      /\ UNCHANGED <<list, view, there, table, widget, history, bounds>>
  BY DEF Serve
<1>3. /\ s \in Load /\ s.id = l.id /\ s.view = l.view
      /\ s.generation = l.generation /\ s.filters = l.filters
  <2> DEFINE page == {n \in list[l.filters] :
                        Place(n, list[l.filters]) \in l.skip + 1 .. l.skip + PageSize}
             more == Cardinality(list[l.filters]) > l.skip + PageSize
  <2>1. page \subseteq Row /\ more \in BOOLEAN
    BY <1>1 DEF TypeOK, Load
  <2>2. s = [l EXCEPT !.served = TRUE, !.page = page, !.more = more]
    BY DEF Served
  <2> HIDE DEF page, more
  <2> QED
    BY <1>1, <2>1, <2>2 DEF Load
<1> HIDE DEF s
<1>4. UNCHANGED <<list, view, there, table, rows, top, spinner, foreign, steady, vanished, failed, reloads>>
  BY <1>2 DEF widget, history, bounds
<1>5. TypeOK'
  BY <1>1, <1>2, <1>3, <1>4 DEF TypeOK
<1>6. LoadsFit' /\ IdsDiffer' /\ TablesFit'
  BY <1>1, <1>2, <1>3, <1>4 DEF Fits, LoadsFit, IdsDiffer, TablesFit, Current
<1>7. LoadingTruly'
  <2>1. ASSUME NEW v \in Views
        PROVE  IF table'[v].loading THEN \E m : CurrentLoads(v)' = {m} ELSE CurrentLoads(v)' = {}
    <3>1. CASE v = l.view /\ Current(l)
      <4>1. CurrentLoads(v) = {l} /\ table[v].loading
        BY <1>1, <3>1, OnlyCurrent
      <4>2. CurrentLoads(v)' = {s}
        BY <1>2, <1>3, <1>4, <3>1, <4>1 DEF CurrentLoads, Current
      <4> QED
        BY <1>4, <4>1, <4>2
    <3>2. CASE v # l.view \/ ~Current(l)
      <4>1. CurrentLoads(v)' = CurrentLoads(v)
        BY <1>2, <1>3, <1>4, <3>2 DEF CurrentLoads, Current
      <4> QED
        BY <1>1, <1>4, <4>1 DEF Fits, LoadingTruly
    <3> QED
      BY <3>1, <3>2
  <2> QED
    BY <2>1 DEF LoadingTruly
<1>8. RowsBelong' /\ EndIsFetched'
  BY <1>4 DEF IInv, RowsBelong, EndIsFetched, Now, Needed
<1> QED
  BY <1>5, <1>6, <1>7, <1>8 DEF IInv, Fits
\* Rows that come and go, and the ways between the pages.
LEMMA OtherStep ==
  ASSUME IInv,
         \/ \E f \in Filters, n \in Row : Appear(f, n) \/ Vanish(f, n)
         \/ LeavePage \/ ReturnToPage
  PROVE  IInv'
<1>1. TypeOK /\ Fits /\ view \in 1 .. MaxViews /\ view \in Views /\ reloads \in Nat
  BY DEF IInv, TypeOK, Views, Fits, TablesFit
<1>2. 0 \in 0 .. Cardinality({})
  BY FS_EmptySet
<1>3. CASE \E f \in Filters, n \in Row : Appear(f, n) \/ Vanish(f, n)
  <2>1. PICK f \in Filters, n \in Row : Appear(f, n) \/ Vanish(f, n)
    BY <1>3
  <2>2. UNCHANGED <<view, there, table, rows, top, spinner, loads, foreign, failed, reloads>>
    BY <2>1 DEF Appear, Vanish, Change, widget
  <2>3. list' \in [Filters -> SUBSET Row]
    <3>1. list[f] \cup {n} \in SUBSET Row /\ list[f] \ {n} \in SUBSET Row
      BY <1>1 DEF TypeOK
    <3> QED
      BY <1>1, <2>1, <3>1 DEF Appear, Vanish, Change, TypeOK
  <2>4. steady' \in SUBSET Row /\ vanished' \in BOOLEAN
    <3>1. CASE Appear(f, n)
      BY <1>1, <3>1 DEF Appear, TypeOK
    <3>2. CASE Vanish(f, n)
      BY <1>1, <3>2 DEF Vanish, TypeOK
    <3> QED
      BY <2>1, <3>1, <3>2
  <2>5. TypeOK' /\ Fits'
    BY <1>1, <2>2, <2>3, <2>4
    DEF TypeOK, Fits, LoadsFit, IdsDiffer, TablesFit, LoadingTruly, CurrentLoads, Current
  <2>6. RowsBelong' /\ EndIsFetched'
    BY <2>2 DEF IInv, RowsBelong, EndIsFetched, Now, Needed
  <2> QED
    BY <2>5, <2>6 DEF IInv
<1>4. CASE LeavePage
  <2>1. /\ rows' = {} /\ top' = 0 /\ spinner' = FALSE /\ there' = FALSE
        /\ UNCHANGED <<list, view, table, loads, foreign, steady, vanished, failed, reloads>>
    BY <1>4 DEF LeavePage, history, bounds
  <2>2. TypeOK'
    BY <1>1, <1>2, <2>1 DEF TypeOK
  <2>3. Fits'
    BY <1>1, <2>1 DEF Fits, LoadsFit, IdsDiffer, TablesFit, LoadingTruly, CurrentLoads, Current
  <2>4. RowsBelong' /\ EndIsFetched'
    BY <2>1 DEF RowsBelong, EndIsFetched
  <2> QED
    BY <2>2, <2>3, <2>4 DEF IInv
<1>5. CASE ReturnToPage
  <2>1. /\ ~there /\ view < MaxViews /\ there' = TRUE /\ view' = view + 1
        /\ foreign' = FALSE /\ steady' = {} /\ vanished' = FALSE /\ failed' = FALSE
        /\ UNCHANGED <<list, table, rows, top, spinner, loads, reloads>>
    BY <1>5 DEF ReturnToPage, widget, bounds
  <2>2. rows = {}
    BY <1>1, <2>1 DEF Fits, TablesFit
  <2>3. view' \in 1 .. MaxViews /\ view' \in Views /\ table[view'] = Fresh
    BY <1>1, <2>1 DEF Fits, TablesFit, Views
  <2>4. TypeOK'
    BY <1>1, <2>1, <2>3 DEF TypeOK
  <2>5. \A v \in Views : v > view' => v > view
    BY <1>1, <2>1 DEF Views
  <2>6. \A l \in loads : l.view <= view'
    BY <1>1, <2>1 DEF Fits, LoadsFit, TypeOK, Load, Views
  <2>7. Fits'
    BY <1>1, <2>1, <2>5, <2>6
    DEF Fits, LoadsFit, IdsDiffer, TablesFit, LoadingTruly, CurrentLoads, Current
  <2>8. RowsBelong' /\ EndIsFetched'
    BY <2>1, <2>2, <2>3, FreshTyped DEF RowsBelong, EndIsFetched, Now, Needed
  <2> QED
    BY <2>4, <2>7, <2>8 DEF IInv
<1> QED
  BY <1>3, <1>4, <1>5

-----------------------------------------------------------------------------
(* Nothing is skipped                                                      *)

List == list[Now.filters]

Watched == there /\ ~foreign /\ ~vanished /\ Now.generation > 0

\* A row at place k or before, or before one of those given, has been got.
Covered(n, k, given, got) ==
  Place(n, List) <= k \/ (\E m \in given : n < m) => n \in got

\* What a page on its way will bring continues what is shown.
Continues(l) ==
  /\ l.skip = Now.skip
  /\ l.served => \A n \in steady :
       /\ Covered(n, l.skip + Cardinality(l.page), l.page, Numbers \cup l.page)
       /\ ~l.more => n \in Numbers \cup l.page

SkipInv ==
  Watched =>
    /\ steady \subseteq List
    /\ \A n \in steady : Covered(n, Now.skip, Numbers, Numbers)
    /\ All => steady \subseteq Numbers
    /\ \A l \in CurrentLoads(view) : Continues(l)

\* Places are counted from one, and in the order of the rows.
LEMMA PlacesOrdered ==
  ASSUME NEW S \in SUBSET Row
  PROVE  /\ \A n \in Row : Place(n, S) \in 0 .. Cardinality(S)
         /\ \A n \in S : Place(n, S) > 0
         /\ \A n, m \in Row : n <= m => Place(n, S) <= Place(m, S)
         /\ \A n \in Row, m \in S : n < m => Place(n, S) < Place(m, S)
<1> DEFINE Before(n) == {j \in S : j <= n}
<1>1. IsFiniteSet(S) /\ S \in SUBSET Nat
  BY RowsFinite, FS_Subset DEF Row
<1>2. \A n \in Row : /\ IsFiniteSet(Before(n)) /\ Cardinality(Before(n)) \in Nat
                     /\ Cardinality(Before(n)) <= Cardinality(S)
  <2>1. \A n \in Row : Before(n) \in SUBSET S
    OBVIOUS
  <2> HIDE DEF Before
  <2> QED
    BY <1>1, <2>1, FS_Subset, FS_CardinalityType
<1>3. Cardinality(S) \in Nat
  BY <1>1, FS_CardinalityType
<1>4. \A n \in Row, m \in Row : n <= m => Before(n) \in SUBSET Before(m)
  <2> SUFFICES ASSUME NEW n \in Row, NEW m \in Row, n <= m, NEW j \in Before(n)
               PROVE  j \in Before(m)
    OBVIOUS
  <2> QED
    BY <1>1 DEF Row
<1>5. \A n \in Row, m \in S : n < m => Before(n) # Before(m)
  BY <1>1 DEF Row
<1>6. \A n \in S : Before(n) # {}
  BY <1>1
<1>7. \A n \in Row : Place(n, S) = Cardinality(Before(n))
  BY DEF Place
<1> HIDE DEF Before
<1>8. \A n \in Row, m \in Row : n <= m => Cardinality(Before(n)) <= Cardinality(Before(m))
  BY <1>2, <1>4, FS_Subset
<1>9. \A n \in Row, m \in S : n < m => Cardinality(Before(n)) < Cardinality(Before(m))
  <2> SUFFICES ASSUME NEW n \in Row, NEW m \in S, n < m
               PROVE  Cardinality(Before(n)) < Cardinality(Before(m))
    OBVIOUS
  <2>1. m \in Row /\ n <= m
    BY DEF Row
  <2>2. Cardinality(Before(n)) # Cardinality(Before(m))
    BY <1>2, <1>4, <1>5, <2>1, FS_Subset
  <2> QED
    BY <1>2, <1>8, <2>1, <2>2
<1>10. \A n \in S : Cardinality(Before(n)) # 0
  <2> SUFFICES ASSUME NEW n \in S PROVE Cardinality(Before(n)) # 0
    OBVIOUS
  <2> QED
    BY <1>2, <1>6, FS_EmptySet
<1> QED
  BY <1>2, <1>3, <1>7, <1>8, <1>9, <1>10

\* A page holds the rows at the places it was asked for, and no row has left
\* out one between them.
LEMMA PageHolds ==
  ASSUME NEW S \in SUBSET Row, NEW k \in Nat, NEW page,
         page = {n \in S : Place(n, S) \in k + 1 .. k + PageSize}
  PROVE  /\ page \in SUBSET Row
         /\ \A n \in S :
              (Place(n, S) <= k + Cardinality(page) \/ (\E m \in page : n < m)
                 \/ Cardinality(S) <= k + PageSize)
              => Place(n, S) <= k \/ n \in page
<1>1. \A n \in S : Place(n, S) \in Nat /\ Place(n, S) <= Cardinality(S)
  BY PlacesOrdered
<1>2. Cardinality(S) \in Nat /\ IsFiniteSet(page) /\ Cardinality(page) \in Nat
  BY RowsFinite, FS_Subset, FS_CardinalityType
<1>3. Cardinality(page) <= PageSize
  <2> DEFINE f == [n \in page |-> Place(n, S)]
             T == k + 1 .. k + PageSize
  <2>1. \A n, m \in page : n # m => Place(n, S) # Place(m, S)
    <3> SUFFICES ASSUME NEW n \in page, NEW m \in page, n < m PROVE Place(n, S) < Place(m, S)
      BY <1>1 DEF Row
    <3> QED
      BY PlacesOrdered
  <2>2. f \in Injection(page, T)
    BY <2>1 DEF Injection, IsInjective
  <2>3. IsFiniteSet(T) /\ Cardinality(T) = PageSize
    <3>1. k + 1 \in Int /\ k + PageSize \in Int /\ ~(k + 1 > k + PageSize)
      OBVIOUS
    <3>2. k + PageSize - (k + 1) + 1 = PageSize
      OBVIOUS
    <3> QED
      BY <3>1, <3>2, FS_Interval
  <2> HIDE DEF f, T
  <2> QED
    BY <2>2, <2>3, FS_Injection
<1>4. ASSUME NEW n \in S, \/ Place(n, S) <= k + Cardinality(page)
                          \/ \E m \in page : n < m
                          \/ Cardinality(S) <= k + PageSize
      PROVE  Place(n, S) <= k + PageSize
  <2>1. CASE Place(n, S) <= k + Cardinality(page)
    BY <1>1, <1>2, <1>3, <2>1
  <2>2. CASE \E m \in page : n < m
    <3>1. PICK m \in page : n < m
      BY <2>2
    <3>2. Place(n, S) < Place(m, S) /\ Place(m, S) <= k + PageSize
      BY <3>1, PlacesOrdered
    <3> QED
      BY <1>1, <3>2
  <2>3. CASE Cardinality(S) <= k + PageSize
    BY <1>1, <1>2, <2>3
  <2> QED
    BY <1>4, <2>1, <2>2, <2>3
<1> QED
  BY <1>1, <1>4

\* The rows shown stay, the list may grow, and pages on their way continue.
LEMMA Follows ==
  ASSUME TypeOK, view \in Views, SkipInv, UNCHANGED <<view, there, rows, steady, foreign, vanished>>,
         list' \in [Filters -> SUBSET Row], List \subseteq list'[Now.filters],
         Now'.filters = Now.filters, Now'.skip = Now.skip, Now'.generation = Now.generation,
         All' => All,
         \A l \in CurrentLoads(view)' : l \in CurrentLoads(view) \/ (Watched => Continues(l)')
  PROVE  SkipInv'
<1> SUFFICES ASSUME Watched' PROVE SkipInv'
  BY DEF SkipInv
<1>1. Watched /\ Numbers' = Numbers /\ List \subseteq List'
  BY DEF Watched, Numbers, List
<1>2. /\ steady \subseteq List /\ (All => steady \subseteq Numbers)
      /\ \A n \in steady : Covered(n, Now.skip, Numbers, Numbers)
      /\ \A l \in CurrentLoads(view) : Continues(l)
  BY <1>1 DEF SkipInv
<1>3. Now.filters \in Filters /\ Now.skip \in Nat
  BY DEF Now, TypeOK, Table
<1>4. \A n \in Row : Place(n, List) \in Nat /\ Place(n, List)' \in Nat /\ Place(n, List) <= Place(n, List)'
  <2>1. List \in SUBSET Row /\ List' \in SUBSET Row
    BY <1>3 DEF List, TypeOK
  <2>2. ASSUME NEW n \in Row
        PROVE  Place(n, List) \in Nat /\ Place(n, List)' \in Nat /\ Place(n, List) <= Place(n, List)'
    <3> DEFINE old == {j \in List : j <= n}
               new == {j \in List' : j <= n}
    <3>1. new \in SUBSET Row /\ old \in SUBSET new
      BY <1>1, <2>1
    <3>2. Place(n, List) = Cardinality(old) /\ Place(n, List)' = Cardinality(new)
      BY DEF Place
    <3> HIDE DEF old, new
    <3> QED
      BY <3>1, <3>2, RowsFinite, FS_Subset, FS_CardinalityType
  <2> QED
    BY <2>2
<1>5. steady \subseteq Row
  BY DEF TypeOK
<1>6. \A n \in steady : Covered(n, Now.skip, Numbers, Numbers)'
  BY <1>1, <1>2, <1>3, <1>4, <1>5 DEF Covered
<1>7. ASSUME NEW l \in CurrentLoads(view), Continues(l) PROVE Continues(l)'
  <2>1. l.skip \in Nat /\ Cardinality(l.page) \in Nat
    BY RowsFinite, FS_Subset, FS_CardinalityType DEF CurrentLoads, TypeOK, Load
  <2>2. l.skip + Cardinality(l.page) \in Nat
    BY <2>1
  <2> QED
    BY <1>1, <1>4, <1>5, <1>7, <2>2 DEF Continues, Covered
<1> QED
  BY <1>1, <1>2, <1>6, <1>7 DEF SkipInv

\* The current pages of a view are those that remain and, perhaps, one that
\* was asked for or has been served.
LEMMA CurrentSplit ==
  ASSUME NEW others, NEW new, loads' = others \cup {new}, NEW v
  PROVE  CurrentLoads(v)' = {l \in others : l.view = v /\ Current(l)'}
                              \cup {l \in {new} : l.view = v /\ Current(l)'}
BY DEF CurrentLoads

LEMMA ServeSkips ==
  ASSUME IInv, SkipInv, NEW l \in loads, Serve(l)
  PROVE  SkipInv'
<1> PICK s : s = Served(l)
  OBVIOUS
<1>1. TypeOK /\ view \in Views /\ l \in Load
  BY DEF IInv, TypeOK, Views
<1>2. loads' = (loads \ {l}) \cup {s}
      /\ UNCHANGED <<list, view, there, table, rows, foreign, steady, vanished, failed>>
  BY DEF Serve, widget, history
<1>3. /\ s.view = l.view /\ s.generation = l.generation /\ s.filters = l.filters
      /\ s.skip = l.skip /\ s.served
      /\ s.page = {n \in list[l.filters] : Place(n, list[l.filters]) \in l.skip + 1 .. l.skip + PageSize}
      /\ (s.more <=> Cardinality(list[l.filters]) > l.skip + PageSize)
  BY <1>1 DEF Served, Load
<1>4. UNCHANGED <<List, Now, All, Numbers, Watched>>
  BY <1>2 DEF List, Now, All, Numbers, Watched
<1>5. ASSUME Watched, s \in CurrentLoads(view)' PROVE Continues(s)'
  <2>1. l \in CurrentLoads(view)
    BY <1>2, <1>3, <1>5 DEF CurrentLoads, Current
  <2>2. l.filters = Now.filters /\ l.skip = Now.skip /\ l.skip \in Nat
    BY <1>1, <1>5, <2>1 DEF IInv, Fits, LoadsFit, CurrentLoads, Now, SkipInv, Continues, Load
  <2>3. List \in SUBSET Row /\ Cardinality(List) \in Nat
    <3>1. List \in SUBSET Row
      BY <1>1, <2>2 DEF List, TypeOK, Load
    <3> QED
      BY <3>1, RowsFinite, FS_Subset, FS_CardinalityType
  <2>4. s.page = {n \in List : Place(n, List) \in Now.skip + 1 .. Now.skip + PageSize}
        /\ (~s.more => Cardinality(List) <= Now.skip + PageSize)
    <3>1. List = list[l.filters]
      BY <2>2 DEF List
    <3> HIDE DEF List
    <3>2. s.page = {n \in List : Place(n, List) \in Now.skip + 1 .. Now.skip + PageSize}
          /\ (s.more <=> Cardinality(List) > Now.skip + PageSize)
      BY <1>3, <2>2, <3>1
    <3> QED
      BY <2>2, <2>3, <3>2
  <2>5. \A n \in List : (Place(n, List) <= Now.skip + Cardinality(s.page)
                           \/ (\E m \in s.page : n < m) \/ ~s.more)
                        => Place(n, List) <= Now.skip \/ n \in s.page
    <3> DEFINE k == Now.skip
               page == s.page
               S == List
    <3>1. S \in SUBSET Row /\ k \in Nat /\ page = {n \in S : Place(n, S) \in k + 1 .. k + PageSize}
      BY <2>2, <2>3, <2>4
    <3> HIDE DEF k, page, S
    <3>2. \A n \in S : (Place(n, S) <= k + Cardinality(page) \/ (\E m \in page : n < m)
                          \/ Cardinality(S) <= k + PageSize)
                       => Place(n, S) <= k \/ n \in page
      BY <3>1, PageHolds
    <3> QED
      BY <2>4, <3>2 DEF k, page, S
  <2>6. \A n \in steady : n \in List /\ (Place(n, List) <= Now.skip => n \in Numbers)
    BY <1>5 DEF SkipInv, Covered
  <2> QED
    <3>1. s.skip = Now'.skip
      BY <1>3, <1>4, <2>2
    <3>2. ASSUME NEW n \in steady'
          PROVE  /\ Covered(n, s.skip + Cardinality(s.page), s.page, Numbers \cup s.page)'
                 /\ ~s.more => n \in (Numbers \cup s.page)'
      <4>1. n \in steady /\ s.skip = Now.skip
        BY <1>2, <1>3, <2>2, <3>2
      <4>2. /\ Place(n, List) <= s.skip + Cardinality(s.page) \/ (\E m \in s.page : n < m)
                 => n \in Numbers \cup s.page
            /\ ~s.more => n \in Numbers \cup s.page
        BY <2>5, <2>6, <4>1
      <4>3. Place(n, List)' = Place(n, List)
        BY <1>4 DEF Place
      <4> QED
        BY <1>4, <4>2, <4>3 DEF Covered
    <3> QED
      BY <3>1, <3>2 DEF Continues
<1>6. ASSUME NEW m \in CurrentLoads(view)'
      PROVE  m \in CurrentLoads(view) \/ (Watched => Continues(m)')
  <2>1. m \in loads' /\ m.view = view /\ Current(m)
    BY <1>2, <1>6 DEF CurrentLoads, Current
  <2>2. CASE m \in loads
    BY <2>1, <2>2 DEF CurrentLoads
  <2>3. CASE m = s
    BY <1>5, <1>6, <2>3
  <2> QED
    BY <1>2, <2>1, <2>2, <2>3
<1> QED
  BY <1>1, <1>2, <1>4, <1>6, Follows DEF TypeOK, List

LEMMA FailSkips ==
  ASSUME IInv, SkipInv, NEW l \in loads, Fail(l) \/ Outdated(l)
  PROVE  SkipInv'
<1>1. TypeOK /\ view \in Views /\ l.view \in Views
  BY DEF IInv, TypeOK, Views, Load
<1>2. /\ loads' = loads \ {l}
      /\ UNCHANGED <<list, view, there, rows, foreign, steady, vanished>>
      /\ \/ UNCHANGED <<table, failed>>
         \/ failed' /\ table' = [table EXCEPT ![l.view].hasMore = FALSE, ![l.view].loading = FALSE]
  <2>1. CASE Fail(l)
    <3>1. failed \in BOOLEAN
      BY <1>1 DEF TypeOK
    <3> QED
      BY <2>1, <3>1 DEF Fail
  <2>2. CASE Outdated(l)
    BY <2>2 DEF Outdated, widget, history
  <2> QED
    BY <2>1, <2>2
<1>3. /\ Now'.filters = Now.filters /\ Now'.skip = Now.skip /\ Now'.generation = Now.generation
      /\ (All' => All)
      /\ \A m \in loads : Current(m)' = Current(m)
  BY <1>1, <1>2 DEF Now, All, TypeOK, Table, Current, Load
<1>4. CurrentLoads(view)' \subseteq CurrentLoads(view)
  BY <1>2, <1>3 DEF CurrentLoads
<1> QED
  BY <1>1, <1>2, <1>3, <1>4, Follows DEF TypeOK, List

\* The page that arrives continues the rows, and the next one continues it.
LEMMA ArriveSkips ==
  ASSUME IInv, SkipInv, NEW l \in loads, Arrive(l)
  PROVE  SkipInv'
<1> SUFFICES ASSUME Watched' PROVE SkipInv'
  BY DEF SkipInv
<1>1. TypeOK /\ Fits /\ view \in Views /\ l \in Load /\ l.view \in Views /\ Current(l) /\ l.served
  BY DEF IInv, TypeOK, Views, Load, Arrive
<1> PICK t : t = AfterPage(l)
  OBVIOUS
<1>2. /\ t \in Table /\ t.generation = table[l.view].generation /\ t.filters = table[l.view].filters
      /\ t.skip = table[l.view].skip + Cardinality(l.page) /\ t.hasMore = l.more
  <2>1. table[l.view] \in Table
    BY <1>1 DEF TypeOK
  <2> QED
    BY <1>1, <2>1, AfterPageTyped DEF AfterPage, Table
<1>3. /\ UNCHANGED <<list, view, there, steady, vanished, failed>>
      /\ foreign' = (foreign \/ (there /\ l.view # view))
      /\ rows' = IF there THEN rows \cup {<<l.filters, n>> : n \in l.page} ELSE rows
      /\ \/ /\ table' = [table EXCEPT ![l.view] = [t EXCEPT !.loading = TRUE]]
            /\ loads' = (loads \ {l}) \cup {Request(l.view, t, loads \ {l})}
         \/ /\ table' = [table EXCEPT ![l.view] = t]
            /\ loads' = loads \ {l}
  BY DEF Arrive
<1>4. there /\ l.view = view /\ ~foreign /\ ~vanished
  BY <1>3 DEF Watched
<1>5. /\ Now' \in {t, [t EXCEPT !.loading = TRUE]}
      /\ Now'.generation = Now.generation /\ Now'.filters = Now.filters
      /\ Now'.skip = Now.skip + Cardinality(l.page) /\ Now'.hasMore = l.more
      /\ Now'.skip = t.skip
  BY <1>1, <1>2, <1>3, <1>4 DEF Now, TypeOK, Table
<1>6. CurrentLoads(view) = {l} /\ l.filters = Now.filters
  BY <1>1, <1>4, OnlyCurrent DEF Fits, LoadsFit, Now
<1>7. List' = List /\ Watched /\ Continues(l)
  BY <1>3, <1>4, <1>5, <1>6 DEF List, Watched, SkipInv
<1>8. Numbers' = Numbers \cup l.page
  BY <1>1, <1>3, <1>4, <1>5, <1>6 DEF Numbers, Load
<1>9. \A n \in steady :
        /\ n \in List
        /\ Place(n, List) <= Now'.skip => n \in Numbers'
        /\ (\E m \in Numbers' : n < m) => n \in Numbers'
        /\ ~l.more => n \in Numbers'
  <2>1. SUFFICES ASSUME NEW n \in steady
                 PROVE  /\ n \in List
                        /\ Place(n, List) <= Now'.skip => n \in Numbers'
                        /\ (\E m \in Numbers' : n < m) => n \in Numbers'
                        /\ ~l.more => n \in Numbers'
    OBVIOUS
  <2>2. n \in List /\ ((\E m \in Numbers : n < m) => n \in Numbers)
    BY <1>7 DEF SkipInv, Covered
  <2>3. /\ Place(n, List) <= Now'.skip \/ (\E m \in l.page : n < m) => n \in Numbers'
        /\ ~l.more => n \in Numbers'
    BY <1>1, <1>5, <1>7, <1>8 DEF Continues, Covered
  <2> QED
    BY <1>8, <2>2, <2>3
<1>10. \A n \in steady : Covered(n, Now.skip, Numbers, Numbers)'
  BY <1>7, <1>9 DEF Covered
<1>11. All' => \A n \in steady : n \in Numbers'
  BY <1>5, <1>9 DEF All
<1>12. ASSUME NEW m \in CurrentLoads(view)' PROVE Continues(m)'
  <2>1. m \in loads' /\ m.view = view /\ Current(m)'
    BY <1>3, <1>12 DEF CurrentLoads
  <2>2. m \notin loads \ {l}
    <3>1. Current(m)' = Current(m)
      BY <1>1, <1>3, <1>4, <1>5, <2>1 DEF Current, Now
    <3> QED
      BY <1>6, <2>1, <3>1 DEF CurrentLoads
  <2>3. m = Request(l.view, t, loads \ {l})
    BY <1>3, <2>1, <2>2
  <2>4. m.skip = Now'.skip /\ ~m.served
    BY <1>5, <2>3 DEF Request
  <2> QED
    BY <2>4 DEF Continues
<1> QED
  BY <1>3, <1>7, <1>9, <1>10, <1>11, <1>12 DEF SkipInv

LEMMA ReloadSkips ==
  ASSUME IInv, NEW w \in Views, NEW f \in Filters, Reload(w, f)
  PROVE  SkipInv'
<1> SUFFICES ASSUME Watched' PROVE SkipInv'
  BY DEF SkipInv
<1>1. TypeOK /\ Fits /\ view \in Views /\ table[w] \in Table
  BY DEF IInv, TypeOK, Views
<1> PICK t : t = Restarted(w, f)
  OBVIOUS
<1>2. /\ UNCHANGED <<list, view, there>> /\ rows' = {} /\ foreign' = (w # view) /\ steady' = list[f]
      /\ table' = [table EXCEPT ![w] = t]
      /\ loads' = loads \cup {Request(w, t, loads)}
  BY DEF Reload
<1>3. /\ t.filters = f /\ t.generation = table[w].generation + 1 /\ t.skip = 0 /\ t.loading
  BY <1>1 DEF Restarted, Table
<1>4. w = view
  BY <1>2 DEF Watched
<1>5. Now' = t /\ List' = list[f] /\ Numbers' = {}
  BY <1>1, <1>2, <1>3, <1>4 DEF Now, List, Numbers, TypeOK
<1>6. list[f] \in SUBSET Row
  BY <1>1 DEF TypeOK
<1>7. \A n \in steady' : Covered(n, Now.skip, Numbers, Numbers)'
  <2>1. \A n \in list[f] : Place(n, list[f]) > 0 /\ Place(n, list[f]) \in Nat
    BY <1>6, PlacesOrdered
  <2> QED
    BY <1>2, <1>3, <1>5, <2>1 DEF Covered
<1>8. ~All'
  BY <1>3, <1>5 DEF All
<1>9. ASSUME NEW m \in CurrentLoads(view)' PROVE Continues(m)'
  <2>1. m \in loads' /\ m.view = view /\ m.generation = t.generation
    BY <1>2, <1>4, <1>5, <1>9 DEF CurrentLoads, Current, Now
  <2>2. m \notin loads
    <3>1. ASSUME m \in loads PROVE m.generation <= table[w].generation /\ m.generation \in Nat
      BY <1>1, <1>4, <2>1, <3>1 DEF Fits, LoadsFit, TypeOK, Load
    <3> QED
      BY <1>1, <1>3, <2>1, <3>1 DEF Table
  <2>3. m = Request(w, t, loads)
    BY <1>2, <2>1, <2>2
  <2>4. m.skip = 0 /\ ~m.served
    BY <1>3, <2>3 DEF Request
  <2> QED
    BY <1>3, <1>5, <2>4 DEF Continues
<1> QED
  BY <1>2, <1>5, <1>7, <1>8, <1>9 DEF SkipInv

LEMMA ScrollSkips ==
  ASSUME IInv, SkipInv, NEW first \in 0 .. MaxRow, Scroll(first)
  PROVE  SkipInv'
<1>1. TypeOK /\ view \in Views /\ table[view] \in Table
  BY DEF IInv, TypeOK, Views
<1> PICK new : new = Request(view, table[view], loads)
  OBVIOUS
<1>2. /\ UNCHANGED <<list, view, there, rows, foreign, steady, vanished, failed>>
      /\ \/ UNCHANGED <<table, loads>>
         \/ /\ table[view].hasMore
            /\ table' = [table EXCEPT ![view].loading = TRUE]
            /\ loads' = loads \cup {new}
  BY DEF Scroll, Needed, history
<1>3. /\ Now'.filters = Now.filters /\ Now'.skip = Now.skip /\ Now'.generation = Now.generation
      /\ (All' => All)
      /\ \A v \in Views : table'[v].generation = table[v].generation
  BY <1>1, <1>2 DEF Now, All, TypeOK, Table
<1>4. ASSUME NEW m \in CurrentLoads(view)' PROVE m \in CurrentLoads(view) \/ Continues(m)'
  <2>1. m \in loads' /\ m.view = view /\ Current(m)
    BY <1>1, <1>2, <1>3, <1>4 DEF CurrentLoads, Current
  <2>2. CASE m \in loads
    BY <2>1, <2>2 DEF CurrentLoads
  <2>3. CASE m = new
    <3>1. m.skip = Now'.skip /\ ~m.served
      BY <1>3, <2>3 DEF Request, Now
    <3> QED
      BY <3>1 DEF Continues
  <2> QED
    BY <1>2, <2>1, <2>2, <2>3
<1> QED
  BY <1>1, <1>2, <1>3, <1>4, Follows DEF TypeOK, List

LEMMA OtherSkips ==
  ASSUME IInv, SkipInv,
         \/ \E f \in Filters, n \in Row : Appear(f, n) \/ Vanish(f, n)
         \/ LeavePage \/ ReturnToPage
  PROVE  SkipInv'
<1>1. TypeOK /\ view \in Views /\ Now.filters \in Filters
  BY DEF IInv, TypeOK, Views, Now, Table
<1>2. ASSUME NEW f \in Filters, NEW n \in Row, Appear(f, n) \/ Vanish(f, n) PROVE SkipInv'
  <2>1. /\ UNCHANGED <<view, there, table, rows, loads, foreign, failed>>
        /\ list' = [list EXCEPT ![f] = IF Appear(f, n) THEN @ \cup {n} ELSE @ \ {n}]
    BY <1>2 DEF Appear, Vanish, Change, widget
  <2>2. CASE Appear(f, n) \/ f # Now.filters
    <3>1. UNCHANGED <<steady, vanished>>
      BY <1>1, <1>2, <2>2 DEF Appear, Vanish, Now, TypeOK
    <3>2. list' \in [Filters -> SUBSET Row] /\ List \subseteq list'[Now.filters]
      BY <1>1, <2>1, <2>2 DEF TypeOK, List
    <3>3. UNCHANGED <<Now, All, CurrentLoads(view)>>
      BY <2>1 DEF Now, All, CurrentLoads, Current
    <3> QED
      BY <1>1, <2>1, <3>1, <3>2, <3>3, Follows
  <2>3. CASE Vanish(f, n) /\ f = Now.filters
    BY <2>3 DEF Vanish, Now, SkipInv, Watched
  <2> QED
    BY <1>2, <2>2, <2>3
<1>3. CASE LeavePage
  BY <1>3 DEF LeavePage, SkipInv, Watched
<1>4. CASE ReturnToPage
  <2>1. view < MaxViews /\ view' = view + 1 /\ table' = table
    BY <1>4 DEF ReturnToPage
  <2>2. view' \in Views /\ view' > view
    BY <1>1, <2>1 DEF Views
  <2>3. table'[view'] = Fresh
    BY <2>1, <2>2 DEF IInv, Fits, TablesFit
  <2> QED
    BY <2>3, FreshTyped DEF SkipInv, Watched, Now
<1> QED
  BY <1>2, <1>3, <1>4

-----------------------------------------------------------------------------
(* The theorems                                                            *)

LEMMA Starts == Init => IInv
<1> SUFFICES ASSUME Init PROVE IInv
  OBVIOUS
<1>1. 0 \in 0 .. Cardinality({})
  BY FS_EmptySet
<1>2. TypeOK
  <2>1. list \in [Filters -> SUBSET Row]
    BY DEF Init
  <2>2. view \in 1 .. MaxViews /\ table \in [Views -> Table]
    BY FreshTyped DEF Init
  <2>3. rows \subseteq Filters \X Row /\ top \in 0 .. Cardinality(rows)
    BY <1>1 DEF Init
  <2> QED
    BY <2>1, <2>2, <2>3 DEF Init, TypeOK
<1>3. \A v \in Views : table[v] = Fresh /\ CurrentLoads(v) = {}
  BY DEF Init, CurrentLoads
<1>4. Fits
  BY <1>3, FreshTyped DEF Init, Fits, LoadsFit, IdsDiffer, TablesFit, LoadingTruly
<1>5. RowsBelong /\ EndIsFetched
  BY <1>3, FreshTyped DEF Init, RowsBelong, EndIsFetched, Needed, Now, Views
<1> QED
  BY <1>2, <1>4, <1>5 DEF IInv

LEMMA Invariant == Spec => []IInv
<1>1. ASSUME IInv, Next PROVE IInv'
  BY <1>1, ServeStep, FailStep, ArriveStep, ReloadStep, ScrollStep, OtherStep DEF Next
<1>2. ASSUME IInv, UNCHANGED vars PROVE IInv'
  BY <1>2
  DEF vars, widget, history, bounds, IInv, TypeOK, Fits, LoadsFit, IdsDiffer, TablesFit, LoadingTruly,
      CurrentLoads, Current, RowsBelong, EndIsFetched, Now, Needed
<1> QED
  BY Starts, <1>1, <1>2, PTL DEF Spec

LEMMA SkipInvariant == Spec => []SkipInv
<1>1. Init => SkipInv
  BY FreshTyped DEF Init, SkipInv, Watched, Now, Views
<1>2. ASSUME IInv, SkipInv, Next PROVE SkipInv'
  BY <1>2, ServeSkips, FailSkips, ArriveSkips, ReloadSkips, ScrollSkips, OtherSkips DEF Next
<1>3. ASSUME SkipInv, UNCHANGED vars PROVE SkipInv'
  <2>1. UNCHANGED <<list, view, there, table, rows, loads, foreign, steady, vanished, failed>>
    BY <1>3 DEF vars, widget, history
  <2> QED
    BY <1>3, <2>1
    DEF SkipInv, Watched, Now, List, Numbers, Covered, Continues, All, CurrentLoads, Current, Place
<1> QED
  BY <1>1, <1>2, <1>3, Invariant, PTL DEF Spec

\* The offset, the rows and the pages on their way keep their types; the view
\* starts at a row that is there.
THEOREM TypesKept == Spec => []TypeOK
BY Invariant, PTL DEF IInv

\* Whichever pages are late, the rows are those of the filters that are set,
\* as long as no table of an earlier page has touched them.
THEOREM RowsKept == Spec => []RowsBelong
BY Invariant, PTL DEF IInv

\* The view never stands at the end of the rows with more to come and nothing
\* on its way.
THEOREM EndKept == Spec => []EndIsFetched
BY Invariant, PTL DEF IInv

\* As long as no row leaves the list, none of it is skipped between those
\* shown, nor missing once the list has ended.
THEOREM NothingLeftOut == Spec => []NothingSkipped
<1>1. SkipInv => NothingSkipped
  BY DEF SkipInv, Watched, NothingSkipped, Covered
<1> QED
  BY <1>1, SkipInvariant, PTL

\* A generation has one page on its way while the table loads, and none
\* otherwise.
THEOREM OneLoadKept == Spec => []OneLoad
<1>1. LoadingTruly => OneLoad
  <2> SUFFICES ASSUME LoadingTruly, NEW v \in Views
               PROVE  Cardinality(CurrentLoads(v)) = IF table[v].loading THEN 1 ELSE 0
    BY DEF OneLoad, CurrentLoads
  <2> HIDE DEF CurrentLoads
  <2> QED
    BY FS_EmptySet, FS_Singleton DEF LoadingTruly
<1> QED
  BY <1>1, Invariant, PTL DEF IInv, Fits

-----------------------------------------------------------------------------
(* Who puts the progress icon out                                          *)

LEMMA SpinnerKept ==
  ASSUME IInv, SpinnerIsOwed, Next
  PROVE  SpinnerIsOwed'
<1>t. table \in [Views -> Table] /\ loads \subseteq Load /\ view \in Views
  BY DEF IInv, TypeOK, Views
<1> SUFFICES ASSUME spinner' PROVE \E l \in loads' : Current(l)'
  BY DEF SpinnerIsOwed
<1>1. CASE \E l \in loads : Serve(l)
  <2>1. PICK l \in loads : Serve(l)
    BY <1>1
  <2>2. spinner /\ table' = table /\ loads' = (loads \ {l}) \cup {Served(l)}
    BY <2>1 DEF Serve, widget
  <2>3. Served(l).view = l.view /\ Served(l).generation = l.generation
    BY <1>t DEF Served, Load
  <2> QED
    BY <2>2, <2>3 DEF SpinnerIsOwed, Current
<1>2. CASE \E l \in loads : Outdated(l) \/ Fail(l)
  <2>1. PICK l \in loads : Outdated(l) \/ Fail(l)
    BY <1>2
  <2>2. spinner /\ ~Current(l) /\ table' = table /\ loads' = loads \ {l}
    BY <2>1 DEF Outdated, Fail, widget
  <2> QED
    BY <2>2 DEF SpinnerIsOwed, Current
<1>3. CASE \E l \in loads : Arrive(l)
  BY <1>3 DEF Arrive
<1>4. CASE \E v \in Views, f \in Filters : Reload(v, f)
  <2>1. PICK v \in Views, f \in Filters : Reload(v, f)
    BY <1>4
  <2>2. Restarted(v, f).generation = table[v].generation + 1 /\ FreeIds(loads) # {}
        /\ table'[v] = Restarted(v, f) /\ Request(v, Restarted(v, f), loads) \in loads'
    BY <1>t, <2>1 DEF Reload, Restarted, Table
  <2>3. Request(v, Restarted(v, f), loads).view = v
        /\ Request(v, Restarted(v, f), loads).generation = Restarted(v, f).generation
    BY DEF Request
  <2> QED
    BY <2>2, <2>3 DEF Current
<1>5. CASE \E first \in 0 .. MaxRow : Scroll(first)
  <2>1. spinner /\ loads \subseteq loads'
        /\ (table' = table \/ table' = [table EXCEPT ![view].loading = TRUE])
    BY <1>5 DEF Scroll
  <2>2. \A v \in Views : table'[v].generation = table[v].generation
    BY <1>t, <2>1 DEF Table
  <2> QED
    BY <1>t, <2>1, <2>2 DEF SpinnerIsOwed, Current, Load
<1>6. CASE LeavePage
  BY <1>6 DEF LeavePage
<1>7. CASE \/ \E f \in Filters, n \in Row : Appear(f, n) \/ Vanish(f, n)
           \/ ReturnToPage
  BY <1>7 DEF Appear, Vanish, Change, ReturnToPage, widget, SpinnerIsOwed, Current
<1> QED
  BY <1>1, <1>2, <1>3, <1>4, <1>5, <1>6, <1>7 DEF Next

\* Whatever is late, fails or is reloaded, the icon VetisPagedTable shows has
\* a page on its way whose answer puts it out: the safe half of SpinnerEnds.
THEOREM IconIsOwed == Spec => []SpinnerIsOwed
<1>1. Init => SpinnerIsOwed
  BY DEF Init, SpinnerIsOwed
<1>2. ASSUME SpinnerIsOwed, UNCHANGED vars PROVE SpinnerIsOwed'
  BY <1>2 DEF SpinnerIsOwed, Current, vars, widget
<1> QED
  BY <1>1, <1>2, SpinnerKept, Invariant, PTL DEF Spec
=============================================================================
