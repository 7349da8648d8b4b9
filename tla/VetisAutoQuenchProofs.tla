------------------------ MODULE VetisAutoQuenchProofs ------------------------
(***************************************************************************)
(* The types of VetisAutoQuench and PassMissesNothing, for any journal,    *)
(* any lanes and any size of a batch.  What a pass owes lies on a page,    *)
(* behind the page or has just been picked, and no mark is beyond it.      *)
(***************************************************************************)
EXTENDS VetisAutoQuench, FiniteSetTheorems, TLAPS

USE AutoQuenchAssumption

LEMMA KeysAreNumbers == Docs \subseteq Nat /\ Docs \cup {0} \subseteq Nat
OBVIOUS

LEMMA LaneTyped ==
  ASSUME TypeOK, NEW d \in Standing
  PROVE  Lane(d) \in Lanes
BY DEF TypeOK, Standing, Lane, Lanes

LEMMA FreshTyped ==
  /\ Fresh \in [Lanes -> Mark]
  /\ \A l \in Lanes : Fresh[l].at = 0 /\ ~Fresh[l].exhausted
BY DEF Fresh, Mark

\* The batch that is over leaves nothing behind.
LEMMA CloseTyped ==
  ASSUME PassInv, Close, status' = status, cursor' \in [Lanes -> Mark],
         steady' \subseteq Standing, visited' \subseteq Docs, broken' \in BOOLEAN,
         \A d \in steady' \ visited' : ~cursor'[Lane(d)].exhausted /\ cursor'[Lane(d)].at < d
  PROVE  PassInv'
<1>1. Closed' /\ step' = "idle"
  BY DEF Close, Closed
<1>2. TypeOK'
  BY <1>1, FreshTyped DEF PassInv, TypeOK, Closed, Standing
<1>3. PagesAreOrdered'
  BY <1>1 DEF Closed, PagesAreOrdered, NoPick
<1>4. Standing' = Standing /\ \A d \in Docs : Lane(d)' = Lane(d)
  BY DEF Standing, Lane
<1>5. \A d \in Owed' : Before(cursor, d)'
  BY <1>4 DEF Owed, Before, Standing, Lane
<1> QED
  BY <1>1, <1>2, <1>3, <1>4, <1>5 DEF PassInv, Closed, NoPick

LEMMA InitInv == Init => PassInv
<1> SUFFICES ASSUME Init PROVE PassInv
  OBVIOUS
<1>1. TypeOK
  <2>1. mark \in [Lanes -> Mark] /\ cursor \in [Lanes -> Mark]
    BY FreshTyped DEF Init, Closed
  <2>2. after \in [Lanes -> Docs \cup {0}] /\ buffer \in [Lanes -> SUBSET Docs]
    BY DEF Init, Closed
  <2>3. seen \subseteq Docs /\ looked \in 0 .. Batch /\ steady \subseteq Docs /\ visited \subseteq Docs
    BY DEF Init, Closed, Standing
  <2> QED
    BY <2>1, <2>2, <2>3 DEF Init, TypeOK, Closed
<1>2. \A d \in Owed : Before(cursor, d)
  BY <1>1, LaneTyped, FreshTyped DEF Init, Owed, Before, Standing
<1>3. PagesAreOrdered
  BY DEF Init, Closed, PagesAreOrdered, NoPick
<1> QED
  BY <1>1, <1>2, <1>3 DEF Init, Closed, NoPick, PassInv

\* A record that moves is no longer owed; the others keep their lane.
LEMMA MoveInv ==
  ASSUME PassInv, NEW m \in Docs, NEW s \in Status, MoveRecord(m, s)
  PROVE  PassInv'
<1>1. TypeOK'
  BY DEF PassInv, TypeOK, MoveRecord, lanes
<1>2. /\ Owed' = Owed \ {m}
      /\ \A d \in Docs \ {m} : Lane(d)' = Lane(d)
      /\ steady' = steady \ {m}
  BY DEF PassInv, TypeOK, MoveRecord, Owed, Lane
<1>3. steady' \subseteq Standing'
  BY <1>2 DEF PassInv, TypeOK, MoveRecord, Standing
<1>4. Owed \subseteq Docs
  BY DEF PassInv, TypeOK, Owed
<1>5. \A d \in Owed' : Before(cursor, d)'
  BY <1>2, <1>4 DEF PassInv, MoveRecord, Before
<1>6. PagesAreOrdered'
  BY <1>2 DEF PassInv, TypeOK, MoveRecord, PagesAreOrdered, lanes
<1>7. step # "idle" => NothingPassedOver'
  BY <1>2, <1>4 DEF PassInv, MoveRecord, NothingPassedOver, StillComes, lanes
<1> QED
  BY <1>1, <1>3, <1>5, <1>6, <1>7 DEF PassInv, MoveRecord, Closed, lanes

LEMMA OpenInv ==
  ASSUME PassInv, OpenLanes
  PROVE  PassInv'
<1>1. TypeOK'
  BY DEF PassInv, TypeOK, OpenLanes, Mark, history
<1>2. Owed' = Owed /\ Standing' = Standing /\ \A d \in Docs : Lane(d)' = Lane(d)
  BY DEF OpenLanes, Owed, Standing, Lane, history
<1>3. Owed \subseteq Standing /\ Owed \subseteq Docs
  BY DEF PassInv, TypeOK, Owed
<1>4. Closed
  BY DEF PassInv, OpenLanes
<1>5. NothingPassedOver'
  <2> SUFFICES ASSUME NEW d \in Owed
               PROVE  /\ d > after'[Lane(d)]
                      /\ ~mark'[Lane(d)].exhausted
                      /\ mark'[Lane(d)].at < d
                      /\ d \notin seen'
    BY <1>2, <1>3 DEF NothingPassedOver, StillComes
  <2>1. Lane(d) \in Lanes
    BY <1>3, LaneTyped DEF PassInv
  <2>2. Before(cursor, d)
    BY DEF PassInv
  <2> QED
    BY <1>4, <2>1, <2>2 DEF OpenLanes, Before, Closed
<1>6. PagesAreOrdered'
  BY <1>4 DEF OpenLanes, PagesAreOrdered, Closed, NoPick
<1>7. \A d \in Owed' : Before(cursor, d)'
  BY <1>2, <1>3 DEF PassInv, OpenLanes, Before
<1> QED
  BY <1>1, <1>2, <1>4, <1>5, <1>6, <1>7 DEF PassInv, OpenLanes, Closed, NoPick, history

\* A page takes the lowest keys of its lane; an empty one says nothing is owed there.
LEMMA FillInv ==
  ASSUME PassInv, NEW l \in Lanes, step \in {"pick", "tail"}, Fill(l)
  PROVE  PassInv'
<1>1. PICK page \in SUBSET Docs :
        /\ Page(l, page)
        /\ \/ /\ page = {}
              /\ mark' = [mark EXCEPT ![l].exhausted = TRUE]
              /\ UNCHANGED <<after, buffer>>
           \/ \E last \in page :
              /\ \A d \in page : d <= last
              /\ after' = [after EXCEPT ![l] = last]
              /\ buffer' = [buffer EXCEPT ![l] = page]
              /\ UNCHANGED mark
  BY DEF Fill
<1>2. UNCHANGED <<status, cursor, step, seen, looked, pick, steady, visited, broken>> /\ buffer[l] = {}
  BY DEF Fill, Unread, history
<1>3. TypeOK /\ pick.doc = 0
  BY DEF PassInv
<1>4. /\ Owed' = Owed /\ Standing' = Standing
      /\ \A d \in Docs : Lane(d)' = Lane(d)
      /\ Owed \subseteq Standing /\ Owed \subseteq Docs
  BY <1>2 DEF PassInv, TypeOK, Owed, Standing, Lane
<1>5. \A d \in Owed : Before(cursor, d)'
  BY <1>2, <1>4 DEF PassInv, Before
<1>6. \A d \in Owed : Lane(d) = l => d \in Rows(l)
  BY <1>2, <1>3, <1>4 DEF PassInv, NothingPassedOver, StillComes, Rows
<1>7. CASE page = {}
  <2>1. Rows(l) = {}
    BY <1>1, <1>7, FS_EmptySet DEF Page
  <2>2. mark' = [mark EXCEPT ![l].exhausted = TRUE] /\ UNCHANGED <<after, buffer>>
    BY <1>1, <1>7
  <2>3. TypeOK'
    BY <1>2, <1>3, <2>2 DEF TypeOK, Mark
  <2>4. PagesAreOrdered'
    BY <1>2, <1>3, <1>4, <2>2 DEF PassInv, TypeOK, PagesAreOrdered
  <2>5. NothingPassedOver'
    BY <1>2, <1>3, <1>4, <1>6, <2>1, <2>2 DEF PassInv, TypeOK, NothingPassedOver, StillComes
  <2> QED
    BY <1>2, <1>3, <1>4, <1>5, <2>3, <2>4, <2>5 DEF PassInv
<1>8. CASE page # {}
  <2>1. PICK last \in page :
          /\ \A d \in page : d <= last
          /\ after' = [after EXCEPT ![l] = last]
          /\ buffer' = [buffer EXCEPT ![l] = page]
          /\ mark' = mark
    BY <1>1, <1>8
  <2>2. TypeOK'
    BY <1>2, <1>3, <2>1 DEF TypeOK
  <2>3. page \subseteq Rows(l) /\ \A d \in page, e \in Rows(l) \ page : d < e
    BY <1>1 DEF Page
  <2>4. PagesAreOrdered'
    <3> SUFFICES ASSUME NEW k \in Lanes, NEW d \in buffer'[k]
                 PROVE  d <= after'[k] /\ (d \in steady => Lane(d) = k)
      BY <1>2, <1>3, <1>4, <2>2 DEF PagesAreOrdered, TypeOK
    <3>1. CASE k = l
      BY <1>3, <2>1, <2>3, <3>1 DEF TypeOK, Rows
    <3>2. CASE k # l
      BY <1>3, <2>1, <3>2 DEF PassInv, PagesAreOrdered, TypeOK
    <3> QED
      BY <3>1, <3>2
  <2>5. ASSUME NEW d \in Owed
        PROVE  d \in buffer'[Lane(d)] \/ d > after'[Lane(d)]
    <3>1. Lane(d) \in Lanes
      BY <1>3, <1>4, LaneTyped
    <3>2. CASE Lane(d) = l
      BY <1>3, <1>6, <2>1, <2>3, <3>2 DEF TypeOK, Rows
    <3>3. CASE Lane(d) # l
      BY <1>3, <1>4, <2>1, <3>1, <3>3 DEF PassInv, NothingPassedOver, StillComes, TypeOK
    <3> QED
      BY <3>2, <3>3
  <2>6. NothingPassedOver'
    BY <1>2, <1>3, <1>4, <2>1, <2>5 DEF PassInv, NothingPassedOver, StillComes
  <2> QED
    BY <1>2, <1>3, <1>4, <1>5, <2>2, <2>4, <2>6 DEF PassInv
<1> QED
  BY <1>7, <1>8

-----------------------------------------------------------------------------
(* The steps of the walk                                                   *)

\* The head of all pages precedes the rest of its page.
LEMMA PickInv ==
  ASSUME PassInv, PickHead
  PROVE  PassInv'
<1>0. PICK l \in Lanes : \E d \in buffer[l] :
        /\ IsHead(d)
        /\ buffer' = [buffer EXCEPT ![l] = @ \ {d}]
        /\ IF d \in seen
           THEN UNCHANGED <<step, seen, pick>>
           ELSE /\ step' = "find"
                /\ seen' = seen \cup {d}
                /\ pick' = [lane |-> l, doc |-> d]
  BY DEF PickHead
<1>1. PICK h \in buffer[l] :
        /\ IsHead(h)
        /\ buffer' = [buffer EXCEPT ![l] = @ \ {h}]
        /\ IF h \in seen
           THEN UNCHANGED <<step, seen, pick>>
           ELSE /\ step' = "find"
                /\ seen' = seen \cup {h}
                /\ pick' = [lane |-> l, doc |-> h]
  BY <1>0
<1>2. UNCHANGED <<status, cursor, mark, after, looked, steady, visited, broken>> /\ step = "pick"
  BY DEF PickHead, history
<1>3. TypeOK /\ pick.doc = 0 /\ h \in Docs /\ h # 0
  BY <1>2 DEF PassInv, TypeOK
<1>4. /\ Owed' = Owed /\ Standing' = Standing
      /\ \A d \in Docs : Lane(d)' = Lane(d)
      /\ Owed \subseteq Standing /\ Owed \subseteq Docs
  BY <1>2 DEF PassInv, TypeOK, Owed, Standing, Lane
<1>5. \A d \in Owed : Before(cursor, d)'
  BY <1>2, <1>4 DEF PassInv, Before
<1>6. TypeOK'
  <2>1. buffer' \in [Lanes -> SUBSET Docs]
    BY <1>1, <1>3 DEF TypeOK
  <2>2. seen' \subseteq Docs /\ step' \in {"pick", "find"}
    BY <1>1, <1>2, <1>3 DEF TypeOK
  <2>3. pick' \in [lane : Lanes, doc : Docs] \cup {NoPick}
    BY <1>1, <1>3 DEF TypeOK
  <2> QED
    BY <1>2, <1>3, <2>1, <2>2, <2>3 DEF TypeOK
<1>7. h \in seen => h \notin Owed
  BY <1>2, <1>3 DEF PassInv, NothingPassedOver
<1>8. \A k \in Lanes : buffer'[k] \subseteq buffer[k] /\ \A d \in buffer[k] : d \in buffer'[k] \/ (k = l /\ d = h)
  BY <1>1, <1>3 DEF TypeOK
<1>9. \A d \in buffer'[l] : h < d
  BY <1>1, <1>3 DEF TypeOK, IsHead
<1>10. h <= after[l] /\ (h \in steady => Lane(h) = l)
  BY <1>1 DEF PassInv, PagesAreOrdered
<1>11. PagesAreOrdered'
  <2>1. \A k \in Lanes : \A d \in buffer'[k] : d <= after'[k] /\ (d \in steady' => Lane(d)' = k)
    BY <1>2, <1>3, <1>4, <1>8 DEF PassInv, PagesAreOrdered, TypeOK
  <2>2. CASE h \in seen
    BY <1>1, <1>3, <2>1, <2>2 DEF PagesAreOrdered
  <2>3. CASE h \notin seen
    BY <1>1, <1>2, <1>3, <1>4, <1>9, <1>10, <2>1, <2>3 DEF PagesAreOrdered
  <2> QED
    BY <2>2, <2>3
<1>12. NothingPassedOver'
  <2> SUFFICES ASSUME NEW d \in Owed
               PROVE  /\ StillComes(d)'
                      /\ ~mark[Lane(d)].exhausted
                      /\ mark[Lane(d)].at < d
                      /\ d \in seen' => d = pick'.doc
    BY <1>2, <1>4 DEF NothingPassedOver
  <2>1. /\ d \in buffer[Lane(d)] \/ d > after[Lane(d)]
        /\ ~mark[Lane(d)].exhausted
        /\ mark[Lane(d)].at < d
        /\ d \notin seen
    BY <1>2, <1>3, <1>4 DEF PassInv, NothingPassedOver, StillComes
  <2>2. Lane(d) \in Lanes
    BY <1>3, <1>4, LaneTyped
  <2>3. d \in buffer'[Lane(d)] \/ d > after[Lane(d)] \/ d = h
    BY <1>8, <2>1, <2>2
  <2>4. CASE h \in seen
    BY <1>1, <1>2, <1>4, <1>7, <2>1, <2>3, <2>4 DEF StillComes
  <2>5. CASE h \notin seen
    <3>1. pick'.doc = h /\ seen' = seen \cup {h}
      BY <1>1, <2>5
    <3> QED
      BY <1>2, <1>4, <2>1, <2>3, <3>1 DEF StillComes
  <2> QED
    BY <2>4, <2>5
<1>13. /\ pick'.doc # 0 <=> step' \in {"find", "quench"}
       /\ step' \in {"pick", "find"}
  BY <1>1, <1>2, <1>3
<1> QED
  BY <1>2, <1>4, <1>5, <1>6, <1>11, <1>12, <1>13 DEF PassInv

\* What is known of the record that has just been picked.
LEMMA PickTyped ==
  ASSUME PassInv, step \in {"find", "quench"}
  PROVE  /\ pick.lane \in Lanes /\ pick.doc \in Docs /\ pick.doc # 0
         /\ pick.doc \in steady => Lane(pick.doc) = pick.lane
         /\ \A d \in Owed : Lane(d) = pick.lane /\ d # pick.doc => pick.doc < d
<1>1. pick.lane \in Lanes /\ pick.doc \in Docs /\ pick.doc # 0
  BY DEF PassInv, TypeOK, NoPick
<1>2. pick.doc \in steady => Lane(pick.doc) = pick.lane
  BY <1>1 DEF PassInv, PagesAreOrdered
<1>3. ASSUME NEW d \in Owed, Lane(d) = pick.lane, d # pick.doc
      PROVE  pick.doc < d
  <2>1. d \in buffer[pick.lane] \/ d > after[pick.lane]
    BY <1>3 DEF PassInv, NothingPassedOver, StillComes
  <2>2. pick.doc <= after[pick.lane] /\ \A e \in buffer[pick.lane] : pick.doc < e
    BY <1>1 DEF PassInv, PagesAreOrdered
  <2>3. d \in Nat /\ pick.doc \in Nat
    BY <1>1 DEF PassInv, TypeOK, Owed
  <2>4. after[pick.lane] \in Nat
    <3>1. after \in [Lanes -> Docs \cup {0}]
      BY DEF PassInv, TypeOK
    <3>2. after[pick.lane] \in Docs \cup {0}
      BY <1>1, <3>1
    <3> QED
      BY <3>2, KeysAreNumbers
  <2> QED
    BY <2>1, <2>2, <2>3, <2>4
<1> QED
  BY <1>1, <1>2, <1>3

\* A commit passes over the picked record and over nothing else.
LEMMA CommitBefore ==
  ASSUME PassInv, step = "find", Commit
  PROVE  /\ mark' \in [Lanes -> Mark]
         /\ \A d \in Owed : /\ ~mark'[Lane(d)].exhausted
                            /\ mark'[Lane(d)].at < d \/ d = pick.doc
<1>1. pick.lane \in Lanes /\ pick.doc \in Docs
  BY PickTyped
<1>2. mark' \in [Lanes -> Mark]
  BY <1>1 DEF PassInv, TypeOK, Commit, Mark
<1>3. ASSUME NEW d \in Owed
      PROVE  /\ ~mark'[Lane(d)].exhausted
             /\ mark'[Lane(d)].at < d \/ d = pick.doc
  <2>1. ~mark[Lane(d)].exhausted /\ mark[Lane(d)].at < d /\ Lane(d) \in Lanes
    BY LaneTyped DEF PassInv, NothingPassedOver, Owed
  <2>2. mark \in [Lanes -> Mark]
    BY DEF PassInv, TypeOK
  <2>3. CASE Lane(d) = pick.lane
    BY <1>1, <2>1, <2>2, <2>3, PickTyped DEF Commit, Mark
  <2>4. CASE Lane(d) # pick.lane
    BY <1>1, <2>1, <2>2, <2>4 DEF Commit, Mark
  <2> QED
    BY <2>3, <2>4
<1> QED
  BY <1>2, <1>3

\* The picked record is dealt with: it is no longer owed.
LEMMA DealtInv ==
  ASSUME PassInv, step \in {"find", "quench"},
         UNCHANGED <<status, cursor, after, buffer, seen, steady, broken>>,
         visited' \in {visited, visited \cup {pick.doc}}, pick.doc \notin Owed',
         pick' = NoPick, step' \in {"pick", "tail"},
         looked' \in 0 .. Batch, step' = "pick" => looked' < Batch,
         mark' \in [Lanes -> Mark],
         \A d \in Owed : /\ ~mark'[Lane(d)].exhausted
                         /\ mark'[Lane(d)].at < d \/ d = pick.doc
  PROVE  PassInv'
<1>1. TypeOK'
  BY PickTyped DEF PassInv, TypeOK
<1>2. /\ Owed' \subseteq Owed \ {pick.doc}
      /\ Standing' = Standing
      /\ \A d \in Docs : Lane(d)' = Lane(d)
      /\ Owed \subseteq Docs
  BY DEF PassInv, TypeOK, Owed, Standing, Lane
<1>3. PagesAreOrdered'
  BY <1>2 DEF PassInv, TypeOK, PagesAreOrdered, NoPick
<1>4. NothingPassedOver'
  BY <1>2 DEF PassInv, NothingPassedOver, StillComes
<1>5. \A d \in Owed' : Before(cursor, d)'
  BY <1>2 DEF PassInv, Before
<1> QED
  BY <1>1, <1>2, <1>3, <1>4, <1>5 DEF PassInv, NoPick

LEMMA FindNothingInv ==
  ASSUME PassInv, FindNothing
  PROVE  PassInv'
<1>1. pick.doc \notin Owed'
  BY DEF FindNothing, PassInv, Standing, Open, Owed, history
<1>2. step' \in {"pick", "tail"} /\ looked' \in 0 .. Batch /\ (step' = "pick" => looked' < Batch)
  BY DEF PassInv, TypeOK, FindNothing, Look
<1>3. step = "find" /\ Commit /\ pick' = NoPick
      /\ UNCHANGED <<status, cursor, after, buffer, seen, steady, visited, broken>>
  BY DEF FindNothing, history
<1> QED
  BY <1>1, <1>2, <1>3, CommitBefore, DealtInv

LEMMA NotDueInv ==
  ASSUME PassInv, NotDue
  PROVE  PassInv'
<1>1. pick.doc \notin Owed'
  BY DEF NotDue, Owed
<1>2. step' \in {"pick", "tail"} /\ looked' \in 0 .. Batch /\ (step' = "pick" => looked' < Batch)
  BY DEF PassInv, TypeOK, NotDue, Look
<1>3. step = "find" /\ Commit /\ pick' = NoPick /\ visited' = visited \cup {pick.doc}
      /\ UNCHANGED <<status, cursor, after, buffer, seen, steady, broken>>
  BY DEF NotDue
<1> QED
  BY <1>1, <1>2, <1>3, CommitBefore, DealtInv

LEMMA QuenchedInv ==
  ASSUME PassInv, Quenched
  PROVE  PassInv'
<1>1. pick.doc \notin Owed'
  BY DEF Quenched, Owed
<1>2. step' \in {"pick", "tail"} /\ looked' \in 0 .. Batch /\ (step' = "pick" => looked' < Batch)
  BY DEF PassInv, TypeOK, Quenched
<1>3. step = "quench" /\ mark' = mark /\ pick' = NoPick /\ visited' = visited \cup {pick.doc}
      /\ UNCHANGED <<status, cursor, after, buffer, seen, steady, broken>>
  BY DEF Quenched, lanes
<1>4. mark \in [Lanes -> Mark]
      /\ \A d \in Owed : /\ ~mark[Lane(d)].exhausted
                         /\ mark[Lane(d)].at < d \/ d = pick.doc
  BY <1>3 DEF PassInv, TypeOK, NothingPassedOver
<1> QED
  BY <1>1, <1>2, <1>3, <1>4, DealtInv

\* The mark is set before Mercury is asked: the picked record is still owed.
LEMMA DueInv ==
  ASSUME PassInv, Due
  PROVE  PassInv'
<1>1. step = "find" /\ Commit /\ step' = "quench" /\ looked' = looked + 1
      /\ UNCHANGED <<status, cursor, after, buffer, seen, pick, steady, visited, broken>>
  BY DEF Due, Look, history
<1>2. TypeOK'
  BY <1>1, CommitBefore DEF PassInv, TypeOK
<1>3. /\ Owed' = Owed /\ Standing' = Standing
      /\ \A d \in Docs : Lane(d)' = Lane(d)
      /\ Owed \subseteq Docs
  BY <1>1 DEF PassInv, TypeOK, Owed, Standing, Lane
<1>4. PagesAreOrdered'
  BY <1>1, <1>3, PickTyped DEF PassInv, TypeOK, PagesAreOrdered
<1>5. NothingPassedOver'
  BY <1>1, <1>3, CommitBefore DEF PassInv, NothingPassedOver, StillComes
<1>6. \A d \in Owed' : Before(cursor, d)'
  BY <1>1, <1>3 DEF PassInv, Before
<1> QED
  BY <1>1, <1>2, <1>3, <1>4, <1>5, <1>6 DEF PassInv

-----------------------------------------------------------------------------
(* The end of a batch                                                      *)

LEMMA StopInv ==
  ASSUME PassInv, step \in {"pick", "find", "tail"}, StopHere, broken' \in BOOLEAN
  PROVE  PassInv'
<1>1. cursor' = mark /\ Close /\ UNCHANGED <<status, steady, visited>>
  BY DEF StopHere, Snapshot
<1>2. mark \in [Lanes -> Mark] /\ visited \subseteq Docs /\ steady \subseteq Standing
  BY DEF PassInv, TypeOK
<1>3. \A d \in Owed : ~mark[Lane(d)].exhausted /\ mark[Lane(d)].at < d
  BY DEF PassInv, NothingPassedOver
<1> QED
  BY <1>1, <1>2, <1>3, CloseTyped DEF Owed

LEMMA ThrowInv ==
  ASSUME PassInv, BatchThrows
  PROVE  PassInv'
<1>1. Close /\ broken' \in BOOLEAN /\ UNCHANGED <<status, cursor, steady, visited>>
  BY DEF BatchThrows, history
<1>2. cursor \in [Lanes -> Mark] /\ visited \subseteq Docs /\ steady \subseteq Standing
  BY DEF PassInv, TypeOK
<1>3. \A d \in Owed : ~cursor[Lane(d)].exhausted /\ cursor[Lane(d)].at < d
  BY DEF PassInv, Before
<1> QED
  BY <1>1, <1>2, <1>3, CloseTyped DEF Owed

\* A new pass begins at the first key of every lane.
LEMMA NewPassInv ==
  ASSUME PassInv, Close, NewPass, cursor' = Fresh, status' = status, broken' \in BOOLEAN
  PROVE  PassInv'
<1>1. \A d \in Standing : Lane(d) \in Lanes /\ d \in Nat /\ d > 0
  BY LaneTyped DEF PassInv, Standing
<1> QED
  BY <1>1, FreshTyped, CloseTyped DEF NewPass

-----------------------------------------------------------------------------
LEMMA StepInv ==
  ASSUME PassInv, [Next]_vars
  PROVE  PassInv'
<1>1. CASE \E d \in Docs, s \in Status : MoveRecord(d, s)
  BY <1>1, MoveInv
<1>2. CASE OpenLanes
  BY <1>2, OpenInv
<1>3. CASE \E l \in Lanes : FillForPick(l) \/ FillTail(l)
  BY <1>3, FillInv DEF FillForPick, FillTail
<1>4. CASE PickHead
  BY <1>4, PickInv
<1>5. CASE FindNothing
  BY <1>5, FindNothingInv
<1>6. CASE NotDue
  BY <1>6, NotDueInv
<1>7. CASE Due
  BY <1>7, DueInv
<1>8. CASE Quenched
  BY <1>8, QuenchedInv
<1>9. CASE PassEnds
  BY <1>9, NewPassInv DEF PassEnds, PassInv, TypeOK
<1>10. CASE BatchIsFull
  BY <1>10, StopInv DEF BatchIsFull, PassInv, TypeOK
<1>11. CASE BatchFails
  BY <1>11, StopInv DEF BatchFails
<1>12. CASE BatchThrows
  BY <1>12, ThrowInv
<1>13. CASE Restart
  BY <1>13, NewPassInv DEF Restart
<1>14. CASE UNCHANGED vars
  BY <1>14 DEF vars, lanes, history, PassInv, TypeOK, Closed, Owed, Standing, Lane, Before,
               PagesAreOrdered, NothingPassedOver, StillComes
<1> QED
  BY <1>1, <1>2, <1>3, <1>4, <1>5, <1>6, <1>7, <1>8, <1>9, <1>10, <1>11, <1>12, <1>13, <1>14
     DEF Next, BatchNext, Failure

LEMMA InvMeans == PassInv => TypeOK /\ PassMissesNothing
<1> SUFFICES ASSUME PassInv, step \in {"pick", "tail"}, AllRead
             PROVE  steady \subseteq visited
  BY DEF PassInv, PassMissesNothing
<1>1. \A d \in Owed : Lane(d) \in Lanes /\ ~mark[Lane(d)].exhausted
  BY LaneTyped DEF PassInv, NothingPassedOver, Owed
<1> QED
  BY <1>1 DEF AllRead, Owed

\* Batch, marks, pages and lanes keep their types (the variables of QuenchBatchAsync).
THEOREM WalkTyped == Spec => []TypeOK
<1>1. Spec => []PassInv
  BY InitInv, StepInv, PTL DEF Spec
<1> QED
  BY <1>1, InvMeans, PTL

\* However large the journal and the batch, whatever moves between the lanes, fails or
\* restarts: at the end of a pass every record that stayed in its lane has been visited.
THEOREM PassesMissNothing == Spec => []PassMissesNothing
<1>1. Spec => []PassInv
  BY InitInv, StepInv, PTL DEF Spec
<1> QED
  BY <1>1, InvMeans, PTL

-----------------------------------------------------------------------------
(* The marks move on                                                       *)

LEMMA MarksAreNumbers ==
  ASSUME TypeOK, NEW l \in Lanes
  PROVE  /\ cursor[l] \in Mark /\ mark[l] \in Mark
         /\ cursor[l].at \in Nat /\ mark[l].at \in Nat /\ after[l] \in Nat
         /\ buffer[l] \subseteq Nat
<1>1. cursor[l] \in Mark /\ mark[l] \in Mark /\ after[l] \in Docs \cup {0} /\ buffer[l] \subseteq Docs
  BY DEF TypeOK
<1> QED
  BY <1>1, KeysAreNumbers DEF Mark

\* A page lies beyond the mark of its lane.
LEMMA FillMovesOn ==
  ASSUME PassInv, ProgressInv, NEW l \in Lanes, step \in {"pick", "tail"}, Fill(l)
  PROVE  ProgressInv'
<1>1. UNCHANGED <<cursor, step, looked, pick>>
  BY DEF Fill
<1>2. MarksAreInOrder /\ TypeOK
  BY DEF ProgressInv, PassInv
<1>3. PICK page \in SUBSET Docs :
        /\ page \subseteq Rows(l)
        /\ \/ mark' = [mark EXCEPT ![l].exhausted = TRUE] /\ UNCHANGED <<after, buffer>>
           \/ \E last \in page :
              /\ after' = [after EXCEPT ![l] = last]
              /\ buffer' = [buffer EXCEPT ![l] = page]
              /\ UNCHANGED mark
  BY DEF Fill, Page
<1>4. \A d \in page : d \in Nat /\ after[l] < d
  BY <1>2, <1>3 DEF Rows, Standing
<1>5. \A k \in Lanes : mark'[k].at = mark[k].at /\ (mark[k].exhausted => mark'[k].exhausted)
  BY <1>2, <1>3 DEF TypeOK, Mark
<1>6. MarksAreInOrder'
  <2> SUFFICES ASSUME NEW k \in Lanes
               PROVE  /\ Reaches(mark'[k], cursor[k])
                      /\ mark'[k].at <= after'[k]
                      /\ \A d \in buffer'[k] : mark'[k].at < d
    BY <1>1 DEF MarksAreInOrder
  <2>1. Reaches(mark'[k], cursor[k])
    BY <1>2, <1>5 DEF MarksAreInOrder, Reaches
  <2>n. mark[k].at \in Nat /\ after[k] \in Nat /\ mark[k].at <= after[k] /\ mark'[k].at = mark[k].at
    BY <1>2, <1>5, MarksAreNumbers DEF MarksAreInOrder
  <2>2. CASE after'[k] = after[k] /\ buffer'[k] = buffer[k]
    BY <1>2, <1>5, <2>1, <2>2 DEF MarksAreInOrder
  <2>3. CASE k = l /\ \E last \in page : after'[k] = last /\ buffer'[k] = page
    <3>1. \A d \in page : d \in Nat /\ after[k] < d
      BY <1>4, <2>3
    <3>2. \A d \in page : mark'[k].at < d
      BY <2>n, <3>1
    <3>3. \A d \in page : mark'[k].at <= d
      BY <2>n, <3>1
    <3> QED
      BY <2>1, <2>3, <3>2, <3>3
  <2> QED
    BY <1>2, <1>3, <2>2, <2>3 DEF TypeOK
<1> QED
  BY <1>1, <1>5, <1>6 DEF ProgressInv

\* The picked record lies beyond the mark of its lane, and before the rest of its page.
LEMMA PickMovesOn ==
  ASSUME PassInv, ProgressInv, PickHead
  PROVE  ProgressInv'
<1>1. PICK l \in Lanes, d \in Docs :
        /\ d \in buffer[l]
        /\ buffer' = [buffer EXCEPT ![l] = @ \ {d}]
        /\ \/ UNCHANGED <<step, pick>>
           \/ step' = "find" /\ pick' = [lane |-> l, doc |-> d]
  BY DEF PickHead, PassInv, TypeOK
<1>2. UNCHANGED <<cursor, mark, after, looked>> /\ step = "pick" /\ MarksAreInOrder /\ TypeOK
  BY DEF PickHead, ProgressInv, PassInv
<1>3. \A k \in Lanes : buffer'[k] \subseteq buffer[k]
  BY <1>1, <1>2 DEF TypeOK
<1>4. MarksAreInOrder'
  BY <1>2, <1>3 DEF MarksAreInOrder
<1>5. mark[l].at < d
  BY <1>1, <1>2 DEF MarksAreInOrder
<1> QED
  BY <1>1, <1>2, <1>4, <1>5 DEF ProgressInv

\* A record looked at moves the mark of its lane.
LEMMA CommitMovesOn ==
  ASSUME PassInv, ProgressInv, step = "find", Commit, UNCHANGED <<cursor, after, buffer>>
  PROVE  MarksAreInOrder' /\ \E l \in Lanes : cursor[l].at < mark'[l].at
<1>1. pick.lane \in Lanes /\ pick.doc \in Docs /\ pick.doc # 0
  BY PickTyped
<1>2. TypeOK /\ MarksAreInOrder /\ mark[pick.lane].at < pick.doc
  BY DEF PassInv, ProgressInv
<1>3. pick.doc <= after[pick.lane] /\ \A e \in buffer[pick.lane] : pick.doc < e
  BY <1>1 DEF PassInv, PagesAreOrdered
<1>4. /\ mark'[pick.lane].at = pick.doc /\ mark'[pick.lane].exhausted = mark[pick.lane].exhausted
      /\ \A k \in Lanes \ {pick.lane} : mark'[k] = mark[k]
  BY <1>1, <1>2 DEF Commit, TypeOK, Mark
<1>5. cursor[pick.lane].at < pick.doc /\ Reaches(mark'[pick.lane], cursor[pick.lane])
  <2>1. cursor[pick.lane].at \in Nat /\ mark[pick.lane].at \in Nat /\ pick.doc \in Nat
    BY <1>1, <1>2, MarksAreNumbers
  <2>2. Reaches(mark[pick.lane], cursor[pick.lane])
    BY <1>1, <1>2 DEF MarksAreInOrder
  <2> QED
    BY <1>2, <1>4, <2>1, <2>2 DEF Reaches
<1>6. MarksAreInOrder'
  BY <1>2, <1>3, <1>4, <1>5 DEF MarksAreInOrder
<1> QED
  BY <1>1, <1>4, <1>5, <1>6

LEMMA ProgressStep ==
  ASSUME PassInv, ProgressInv, [Next]_vars
  PROVE  ProgressInv'
<1>t. TypeOK /\ Batch > 0
  BY DEF PassInv
<1>1. CASE \E d \in Docs, s \in Status : MoveRecord(d, s)
  BY <1>1 DEF MoveRecord, lanes, ProgressInv, MarksAreInOrder
<1>2. CASE OpenLanes
  <2>1. /\ step = "idle" /\ step' = "pick" /\ mark' = cursor
        /\ after' = [l \in Lanes |-> cursor[l].at]
        /\ cursor' = cursor /\ buffer' = [l \in Lanes |-> {}] /\ looked' = 0
    BY <1>2 DEF OpenLanes, PassInv, Closed
  <2>2. MarksAreInOrder'
    BY <1>t, <2>1, MarksAreNumbers DEF MarksAreInOrder, Reaches
  <2> QED
    BY <2>1, <2>2 DEF ProgressInv
<1>3. CASE \E l \in Lanes : FillForPick(l) \/ FillTail(l)
  BY <1>3, FillMovesOn DEF FillForPick, FillTail
<1>4. CASE PickHead
  BY <1>4, PickMovesOn
<1>5. CASE FindNothing \/ NotDue \/ Due
  <2>1. step = "find" /\ Commit /\ UNCHANGED <<cursor, after, buffer>>
    BY <1>5 DEF FindNothing, NotDue, Due
  <2>2. step' \in {"pick", "quench"} \/ (step' = "tail" /\ looked' = Batch)
    BY <1>5 DEF FindNothing, NotDue, Due, Look
  <2> QED
    BY <2>1, <2>2, CommitMovesOn DEF ProgressInv
<1>6. CASE Quenched
  <2>1. UNCHANGED <<cursor, mark, after, buffer, looked>> /\ step = "quench"
        /\ (step' = "pick" \/ (step' = "tail" /\ looked = Batch))
    BY <1>6 DEF Quenched, lanes
  <2> QED
    BY <2>1 DEF ProgressInv, MarksAreInOrder
<1>7. CASE PassEnds \/ BatchIsFull \/ BatchFails \/ BatchThrows \/ Restart
  <2>1. step' = "idle"
    BY <1>7 DEF PassEnds, BatchIsFull, BatchFails, BatchThrows, Restart, StopHere, Close
  <2> QED
    BY <2>1 DEF ProgressInv
<1>8. CASE UNCHANGED vars
  BY <1>8 DEF vars, lanes, ProgressInv, MarksAreInOrder
<1> QED
  BY <1>1, <1>2, <1>3, <1>4, <1>5, <1>6, <1>7, <1>8 DEF Next, BatchNext, Failure

\* The marks a batch leaves never move back, and a full batch moves one on,
\* whatever moves between the lanes: the safe half of StayingIsVisited.
THEOREM BatchesAdvance == Spec => BatchesMoveOn
<1>1. Init => ProgressInv
  BY DEF Init, ProgressInv, Closed, MarksAreInOrder
<1>2. PassInv /\ ProgressInv /\ [Next]_vars =>
        [/\ cursor' = Fresh \/ \A l \in Lanes : Reaches(cursor'[l], cursor[l])
         /\ BatchIsFull => \E l \in Lanes : cursor[l].at < cursor'[l].at]_vars
  <2> SUFFICES ASSUME PassInv, ProgressInv, [Next]_vars
               PROVE  /\ cursor' = Fresh \/ \A l \in Lanes : Reaches(cursor'[l], cursor[l])
                      /\ BatchIsFull => \E l \in Lanes : cursor[l].at < cursor'[l].at
    OBVIOUS
  <2>1. TypeOK /\ Batch > 0
    BY DEF PassInv
  <2>2. \A l \in Lanes : Reaches(cursor[l], cursor[l])
    BY <2>1, MarksAreNumbers DEF Reaches
  <2>3. CASE BatchIsFull \/ BatchFails
    <3>1. step # "idle" /\ cursor' = mark
      BY <2>3 DEF BatchIsFull, BatchFails, StopHere, Snapshot
    <3>2. \A l \in Lanes : Reaches(mark[l], cursor[l])
      BY <3>1 DEF ProgressInv, MarksAreInOrder
    <3>3. BatchIsFull => looked = Batch
      BY DEF BatchIsFull, ProgressInv
    <3> QED
      BY <2>1, <3>1, <3>2, <3>3 DEF ProgressInv
  <2>4. CASE ~(BatchIsFull \/ BatchFails)
    <3>1. cursor' = Fresh \/ cursor' = cursor
      BY <2>4 DEF Next, BatchNext, Failure, MoveRecord, OpenLanes, FillForPick, FillTail, Fill, PickHead,
         FindNothing, NotDue, Due, Quenched, PassEnds, BatchThrows, Restart, vars
    <3> QED
      BY <2>2, <2>4, <3>1
  <2> QED
    BY <2>3, <2>4
<1> QED
  BY <1>1, <1>2, InitInv, StepInv, ProgressStep, PTL DEF Spec, BatchesMoveOn
=============================================================================
