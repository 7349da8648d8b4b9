--------------------------- MODULE VetisAutoQuench ---------------------------
(***************************************************************************)
(* The automatic quencher's walk over the journal.  A batch looks at a     *)
(* bounded number of records and leaves a mark for the next one; a pass is *)
(* the batches between two fresh cursors.  The open records lie in lanes,  *)
(* one per organisation, status and "has a date"; a lane is read in pages  *)
(* and the lanes are merged by the sort key.  Meanwhile loading, users and *)
(* the quencher itself move records from lane to lane.                     *)
(*                                                                         *)
(* A record stands for its sort key: (SortAt, Id), undated records last.   *)
(***************************************************************************)
EXTENDS Naturals, FiniteSets

CONSTANTS
  Docs,     \* records of the journal, numbered in the order of CompareDocuments
  Kinds,    \* organisation and "has a date"
  KindOf,   \* [Docs -> Kinds]
  Batch     \* AutoQuenchBatch: records of a batch, heads of a page

ASSUME AutoQuenchAssumption ==
  /\ Docs \subseteq Nat \ {0}
  /\ KindOf \in [Docs -> Kinds]
  /\ Batch \in Nat \ {0}

VARIABLES
  status,   \* [Docs -> status of the record]
  cursor,   \* [Lanes -> mark]: _cursor of the worker
  step,     \* where the batch is
  mark,     \* [Lanes -> mark]: ResumeSortAt, ResumeId, Exhausted of the open lanes
  after,    \* [Lanes -> sort key]: AfterSortAt, AfterId
  buffer,   \* [Lanes -> SUBSET Docs]: what is left of the page
  seen,     \* records picked in this batch
  looked,
  pick,     \* [lane, doc]: what was picked
  steady,   \* history: records open since the pass began, always in one lane
  visited,  \* history: records the pass has dealt with
  broken    \* history: the last batch ended by a failure or a restart

lanes == <<mark, after, buffer>>
history == <<steady, visited, broken>>
vars == <<status, cursor, step, lanes, seen, looked, pick, history>>

\* "Gone": accepted, rejected or no longer in the journal.
Open == {"NotAccepted", "Partial"}
Status == Open \cup {"Gone"}
Lanes == Kinds \X Open
Mark == [at : Docs \cup {0}, exhausted : BOOLEAN]
Fresh == [l \in Lanes |-> [at |-> 0, exhausted |-> FALSE]]
NoPick == [lane |-> <<>>, doc |-> 0]

Lane(d) == <<KindOf[d], status[d]>>
Standing == {d \in Docs : status[d] \in Open}

TypeOK ==
  /\ status \in [Docs -> Status]
  /\ cursor \in [Lanes -> Mark]
  /\ step \in {"idle", "pick", "find", "quench", "tail"}
  /\ mark \in [Lanes -> Mark]
  /\ after \in [Lanes -> Docs \cup {0}]
  /\ buffer \in [Lanes -> SUBSET Docs]
  /\ seen \subseteq Docs
  /\ looked \in 0 .. Batch
  /\ pick \in [lane : Lanes, doc : Docs] \cup {NoPick}
  /\ steady \subseteq Docs /\ visited \subseteq Docs
  /\ broken \in BOOLEAN

Closed ==
  /\ mark = Fresh
  /\ after = [l \in Lanes |-> 0]
  /\ buffer = [l \in Lanes |-> {}]
  /\ seen = {} /\ looked = 0 /\ pick = NoPick

Init ==
  /\ status \in [Docs -> Status]
  /\ cursor = Fresh /\ step = "idle" /\ Closed
  /\ steady = Standing /\ visited = {} /\ broken = FALSE

NewPass ==
  /\ steady' = Standing
  /\ visited' = {}

-----------------------------------------------------------------------------
\* Loading writes a record, a user quenches it, the load releases it: its
\* status changes or it comes and goes.
MoveRecord(d, s) ==
  /\ s # status[d]
  /\ status' = [status EXCEPT ![d] = s]
  /\ steady' = steady \ {d}
  /\ UNCHANGED <<cursor, step, lanes, seen, looked, pick, visited, broken>>

\* A lane is resumed at its mark: what was read beyond it is read again.
OpenLanes ==
  /\ step = "idle"
  /\ step' = "pick"
  /\ mark' = cursor
  /\ after' = [l \in Lanes |-> cursor[l].at]
  /\ broken' = FALSE
  /\ UNCHANGED <<status, cursor, buffer, seen, looked, pick, steady, visited>>

-----------------------------------------------------------------------------
Unread(l) == ~mark[l].exhausted /\ buffer[l] = {}

\* OldestAfter: the next records of the lane, at most Batch of them.
Rows(l) == {d \in Standing : Lane(d) = l /\ d > after[l]}
Page(l, page) ==
  /\ page \subseteq Rows(l)
  /\ \A d \in page, e \in Rows(l) \ page : d < e
  /\ Cardinality(page) <= Batch
  /\ page # Rows(l) => Cardinality(page) = Batch

Fill(l) ==
  /\ Unread(l)
  /\ \E page \in SUBSET Docs :
       /\ Page(l, page)
       /\ \/ /\ page = {}
             /\ mark' = [mark EXCEPT ![l].exhausted = TRUE]
             /\ UNCHANGED <<after, buffer>>
          \/ \E last \in page :
             /\ \A d \in page : d <= last
             /\ after' = [after EXCEPT ![l] = last]
             /\ buffer' = [buffer EXCEPT ![l] = page]
             /\ UNCHANGED mark
  /\ UNCHANGED <<status, cursor, step, seen, looked, pick, history>>

FillForPick(l) == step = "pick" /\ Fill(l)

IsHead(d) == \A l \in Lanes : \A e \in buffer[l] : d <= e

\* The first head of all lanes; one that was seen under another status is skipped.
PickHead ==
  /\ step = "pick"
  /\ \A l \in Lanes : ~Unread(l)
  /\ \E l \in Lanes : \E d \in buffer[l] :
       /\ IsHead(d)
       /\ buffer' = [buffer EXCEPT ![l] = @ \ {d}]
       /\ IF d \in seen
          THEN UNCHANGED <<step, seen, pick>>
          ELSE /\ step' = "find"
               /\ seen' = seen \cup {d}
               /\ pick' = [lane |-> l, doc |-> d]
  /\ UNCHANGED <<status, cursor, mark, after, looked, history>>

\* Mutant: only the records that are sent count for the batch.
LookOnly(next) ==
  /\ looked' = looked + 1
  /\ step' = next

Look(next) ==
  /\ looked' = looked + 1
  /\ step' = IF next = "pick" /\ looked' = Batch THEN "tail" ELSE next

Commit == mark' = [mark EXCEPT ![pick.lane].at = pick.doc]

FindNothing ==
  /\ step = "find"
  /\ status[pick.doc] = "Gone"
  /\ Look("pick")
  /\ Commit
  /\ pick' = NoPick
  /\ UNCHANGED <<status, cursor, after, buffer, seen, history>>

\* A record of any status without a VSD that is due.
NotDue ==
  /\ step = "find"
  /\ Look("pick")
  /\ Commit
  /\ pick' = NoPick
  /\ visited' = visited \cup {pick.doc}
  /\ UNCHANGED <<status, cursor, after, buffer, seen, steady, broken>>

Due ==
  /\ step = "find"
  /\ status[pick.doc] \in Open
  /\ Look("quench")
  /\ Commit
  /\ UNCHANGED <<status, cursor, after, buffer, seen, pick, history>>

\* Mercury has answered, or another command is at work on the record.
Quenched ==
  /\ step = "quench"
  /\ step' = IF looked = Batch THEN "tail" ELSE "pick"
  /\ pick' = NoPick
  /\ visited' = visited \cup {pick.doc}
  /\ UNCHANGED <<status, cursor, lanes, seen, looked, steady, broken>>

-----------------------------------------------------------------------------
\* The batch ends: the lanes leave their marks.
Close ==
  /\ step' = "idle"
  /\ mark' = Fresh
  /\ after' = [l \in Lanes |-> 0]
  /\ buffer' = [l \in Lanes |-> {}]
  /\ seen' = {} /\ looked' = 0 /\ pick' = NoPick

\* Mutant: the next batch goes on behind the pages that were read.
SnapshotOfPages == [l \in Lanes |-> [mark[l] EXCEPT !.at = after[l]]]

Snapshot == mark

StopHere ==
  /\ cursor' = Snapshot
  /\ Close
  /\ UNCHANGED <<status, steady, visited>>

AllRead == \A l \in Lanes : mark[l].exhausted /\ buffer[l] = {}

\* Mutant: the worker keeps the cursor of the finished pass.
PassEndsAsBatch ==
  /\ step \in {"pick", "tail"}
  /\ AllRead
  /\ cursor' = Snapshot
  /\ Close
  /\ UNCHANGED <<status, history>>

\* Nothing is left in any lane: the next batch begins a new pass.
PassEnds ==
  /\ step \in {"pick", "tail"}
  /\ AllRead
  /\ cursor' = Fresh
  /\ Close
  /\ NewPass
  /\ UNCHANGED <<status, broken>>

\* PassFinished: lanes that look unfinished are read once more.
FillTail(l) == step = "tail" /\ Fill(l)
BatchIsFull ==
  /\ step = "tail"
  /\ \E l \in Lanes : ~mark[l].exhausted /\ buffer[l] # {}
  /\ StopHere
  /\ UNCHANGED broken

\* The journal could not be read.
BatchFails ==
  /\ step \in {"pick", "find", "tail"}
  /\ StopHere
  /\ broken' = TRUE

\* An exception: the worker keeps the cursor the batch began with.
BatchThrows ==
  /\ step # "idle"
  /\ Close
  /\ broken' = TRUE
  /\ UNCHANGED <<status, cursor, steady, visited>>

\* The cursor is in memory only.
Restart ==
  /\ cursor' = Fresh
  /\ Close
  /\ NewPass
  /\ broken' = TRUE
  /\ UNCHANGED status

BatchNext ==
  \/ OpenLanes
  \/ \E l \in Lanes : FillForPick(l) \/ FillTail(l)
  \/ PickHead \/ FindNothing \/ NotDue \/ Due \/ Quenched
  \/ PassEnds \/ BatchIsFull

Failure == BatchFails \/ BatchThrows \/ Restart

Next ==
  \/ \E d \in Docs, s \in Status : MoveRecord(d, s)
  \/ BatchNext
  \/ Failure

Spec == Init /\ [][Next]_vars

\* The worker's loop goes on, and neither the journal nor the process fails for ever.
FairSpec == Spec /\ WF_vars(BatchNext) /\ <>[]~broken

-----------------------------------------------------------------------------
\* When a pass ends, every record that stayed in its lane has been looked at
\* and, if due, sent: nothing is skipped by pages, marks, lanes or failures.
PassMissesNothing == step \in {"pick", "tail"} /\ AllRead => steady \subseteq visited

\* A record that stays in its lane is looked at again and again, however many
\* batches a pass takes and whatever moves around it.
StayingIsVisited ==
  \A d \in Docs, s \in Open :
    <>[](status[d] = s) => []<>(step = "find" /\ pick.doc = d)

\* A batch that stops before the end of the pass leaves every mark where it was
\* or further on, and a full batch leaves one further on: no pass is batches
\* without end over the same records.
Reaches(m, earlier) == earlier.at <= m.at /\ (earlier.exhausted => m.exhausted)
BatchesMoveOn ==
  [][/\ cursor' = Fresh \/ \A l \in Lanes : Reaches(cursor'[l], cursor[l])
     /\ BatchIsFull => \E l \in Lanes : cursor[l].at < cursor'[l].at]_vars

-----------------------------------------------------------------------------
(* The inductive invariant behind PassMissesNothing                        *)

\* A record the pass still owes a visit.
Owed == steady \ visited

\* A mark, of the cursor or of an open lane, lies before what is owed.
Before(m, d) == ~m[Lane(d)].exhausted /\ m[Lane(d)].at < d

\* What is owed is on the page, behind the page, or has just been picked.
StillComes(d) ==
  \/ d \in buffer[Lane(d)]
  \/ d > after[Lane(d)]
  \/ pick.doc = d

\* Pages are read once and in order: a mark never overtakes one.
PagesAreOrdered ==
  /\ \A l \in Lanes : \A d \in buffer[l] :
       /\ d <= after[l]
       /\ d \in steady => Lane(d) = l
  /\ pick.doc # 0 =>
       /\ pick.doc <= after[pick.lane]
       /\ \A d \in buffer[pick.lane] : pick.doc < d
       /\ pick.doc \in steady => Lane(pick.doc) = pick.lane

\* The batch has passed over nothing that is owed.
NothingPassedOver ==
  \A d \in Owed :
    /\ StillComes(d)
    /\ ~mark[Lane(d)].exhausted
    /\ mark[Lane(d)].at < d \/ (step = "quench" /\ d = pick.doc)
    /\ d \in seen => d = pick.doc

PassInv ==
  /\ TypeOK
  /\ pick.doc # 0 <=> step \in {"find", "quench"}
  /\ step = "idle" => Closed
  /\ step \in {"pick", "find"} => looked < Batch
  /\ steady \subseteq Standing
  /\ \A d \in Owed : Before(cursor, d)
  /\ PagesAreOrdered
  /\ step # "idle" => NothingPassedOver

(* The inductive invariant behind BatchesMoveOn                            *)

\* The marks of the open lanes lie between the cursor and the pages.
MarksAreInOrder ==
  \A l \in Lanes :
    /\ Reaches(mark[l], cursor[l])
    /\ mark[l].at <= after[l]
    /\ \A d \in buffer[l] : mark[l].at < d

ProgressInv ==
  /\ step # "idle" => MarksAreInOrder
  /\ step = "find" => mark[pick.lane].at < pick.doc
  /\ step # "idle" /\ looked > 0 => \E l \in Lanes : cursor[l].at < mark[l].at
  /\ step = "tail" => looked = Batch
=============================================================================
